---- MODULE Spec2Model ----
(***************************************************************************)
(* A model of the pattern_matching engine: the compiled Pattern classes    *)
(* and their match methods (pattern_engine.py), the __match_args__         *)
(* registry (match_args_data.py) and the Lark2Pattern transformer.         *)
(*                                                                         *)
(* Python objects are records with a kind field k.  A match returns None,  *)
(* a bindings dictionary (a function from names to values) or raises.      *)
(***************************************************************************)
EXTENDS Integers, Sequences, FiniteSets, TLC

VARIABLES
    known_cases,       \* match_args_data.known_cases: qualname -> match args
    special_handlers,  \* match_args_data.special_handlers: list of handler ids
    op,                \* the operation that produced the current state
    tree,              \* the concrete syntax tree given to Lark2Pattern, or None
    pattern,           \* the Pattern under test, or None
    value,             \* the value handed to Pattern.match, or None
    pairs,             \* what match_args_and_kwargs returned inside PtClass.match
    result,            \* what the operation returned or raised
    cache,             \* the lru_cache of str2pattern: entries, least recently used first
    parsed,            \* text -> number of times pattern_lark_parser.parse ran on it
    threads,           \* thread -> where it is in a call of str2pattern
    text,              \* the pattern text handed to the parser, empty before the first
    heap,              \* the dicts that calls of match returned: identity -> entries
    calls,             \* the calls of match so far: dict returned, its entries, dicts written
    touched,           \* the calls whose result the host has written to since
    init_args,         \* the arguments Matcher(...) was constructed with, or None
    __names__,         \* Matcher.__names__, empty before the Matcher is constructed
    lookup,            \* the name handed to Matcher._get, or "" before
    __value__,         \* _Match.__value__, or None before Matcher(...)(value)
    __vars__,          \* _Match.__vars__: None or the bindings of a case
    case_log,          \* the calls of _Match.case so far: text, state before
    f_lineno,          \* frame -> frame.f_lineno
    f_trace,           \* frame -> frame.f_trace, the local trace function or None
    f_trace_opcodes,   \* frame -> frame.f_trace_opcodes
    sys_trace,         \* what sys.gettrace() returns
    _orig_sys_trace,   \* withhacks._orig_sys_trace
    _frame_tracer,     \* withhacks._frame_tracer: frame -> its _FrameTracer
    trace_counter,     \* _FrameTracer.trace_counter
    registered,        \* frame -> the events functions were registered for
    fired,             \* frame -> the events that fired since the first registration
    orig_trace,        \* frame -> frame.f_trace when its tracer was installed
    ran,               \* frame -> the injected functions run so far, in order
    not_run,           \* frame -> the injected functions that have not run yet
    last_call,         \* the last call of a tracer: frame, event, line, what the
                       \* original trace function returned; None before
    __frame__,         \* WithHack.__frame__ of the with-object, if it has one
    __to_reset__,      \* WithHack.__to_reset__ of the with-object, if it has one
    f_locals,          \* the local variables of the function frame
    f_globals,         \* the globals of the module, the locals of the module frame
    before,            \* the frame of the with statement and the globals when it
                       \* was reached, or None
    injections,        \* the number of calls of _set_context_locals and inject_trace_func
    matcher,           \* the _Matcher of a with statement of full_magic, or None
    exe_log,           \* the cases whose guard the last _Matcher.match evaluated
    events             \* what the last traced match did, in order: calls of match,
                       \* of the resolve callback, isinstance, field resolution,
                       \* attribute reads on the value

match_vars == <<known_cases, special_handlers, op, tree, pattern, value, pairs, result>>
cache_vars == <<cache, parsed, threads>>
heap_vars == <<heap, calls, touched>>
_Match_vars == <<__value__, __vars__, case_log>>
trace_vars == <<f_lineno, f_trace, f_trace_opcodes, sys_trace, _orig_sys_trace,
                _frame_tracer, trace_counter, registered, fired, orig_trace, ran,
                not_run, last_call>>
hack_vars == <<__frame__, __to_reset__, f_locals, f_globals, before, injections>>
magic_vars == <<matcher, exe_log, events>>
frame_vars == <<_Match_vars, trace_vars, hack_vars, magic_vars>>
\* what the with-statement hacks leave alone
engine_vars == <<known_cases, special_handlers, tree, pattern, value, pairs, cache,
                 parsed, threads, text, heap, calls, touched, init_args, __names__, lookup,
                 __value__, __vars__, case_log, matcher, exe_log, events>>
host_vars == <<init_args, __names__, lookup, frame_vars>>
vars == <<known_cases, special_handlers, op, tree, pattern, value, pairs, result,
          cache, parsed, threads, text, heap, calls, touched, init_args, __names__, lookup, frame_vars>>

(***************************************************************************)
(* Bounds of the model.                                                    *)
(***************************************************************************)
MaxSeqLen == 3      \* longest list value
MaxSub == 2         \* most sub-patterns in pre, post, elements, options, entries, keywords
MaxHandlers == 3    \* most entries of special_handlers
MaxKnown == 3       \* most entries of known_cases
MaxTexts == 130     \* most distinct pattern texts compiled
MaxThreads == 2     \* threads that call str2pattern
MaxCalls == 2       \* calls of match whose results the host keeps
MaxInject == 2      \* calls of _set_context_locals or inject_trace_func
MaxLine == 2        \* lines of a frame
MaxCases == 2       \* branches of the if chain in a with statement of full_magic

(***************************************************************************)
(* Python values.                                                          *)
(***************************************************************************)
PyNone == [k |-> "NoneType"]
PyInt(n) == [k |-> "int", n |-> n]
PyBool(b) == [k |-> "bool", n |-> IF b THEN 1 ELSE 0]
PyFloat(n) == [k |-> "float", n |-> n]
PyStr(cs) == [k |-> "str", chars |-> cs]
PyList(xs) == [k |-> "list", items |-> xs]
PyTuple(items) == [k |-> "tuple", items |-> items]
PyBytes(bs) == [k |-> "bytes", items |-> bs]     \* the bytes as numbers
PySet(xs) == [k |-> "set", elems |-> xs]
PyDict(f) == [k |-> "dict", d |-> f]
PyObj(c, at) == [k |-> "obj", cls |-> c, attrs |-> at]
PyType(c) == [k |-> "type", name |-> c]
NotCalled == [k |-> "not called"]

Bindings(b) == [k |-> "bindings", b |-> b]
Raise(e, m) == [k |-> "raise", exc |-> e, msg |-> m]
EmptyDict == [n \in {} |-> PyNone]
\* an attribute the object does not have
NoAttribute == [k |-> "no attribute"]
\* the frames of the host: one runs a function, one the module (its f_locals
\* is f_globals); both have the same globals
FunctionFrame == "function frame"
ModuleFrame == "module frame"
Frames == {FunctionFrame, ModuleFrame}
FrameRef(f) == [k |-> "frame", id |-> f]

IsNumber(v) == v.k \in {"int", "bool", "float"}
\* Python ==: bool is a subclass of int, numbers compare by number, everything
\* else of the model's values compares structurally
PyEq(a, b) == IF IsNumber(a) /\ IsNumber(b) THEN a.n = b.n ELSE a = b

Max(a, b) == IF a >= b THEN a ELSE b
Min(a, b) == IF a <= b THEN a ELSE b

\* mutant: an entry that d already has is kept
Update_keep_first(d, res) == d @@ res

\* update(d, res): the entries of res overwrite those of d
Update(d, res) == res @@ d

(***************************************************************************)
(* The host's classes.  Each row is what the engine can observe of a type: *)
(* its module-qualified name, its bases, its own __match_args__ (if it     *)
(* declares one), whether dataclasses.is_dataclass holds and its init      *)
(* fields, and its namedtuple _fields.                                     *)
(***************************************************************************)
NoAttr == [has |-> FALSE]
Attr(x) == [has |-> TRUE, v |-> x]

ClassRow(qn, mro, ma, dc, nt) ==
    [qualname |-> qn, mro |-> mro, match_args |-> ma, dataclass |-> dc, namedtuple |-> nt]

TypeNames == {"Point", "Opaque", "DPoint", "Color", "int", "bool", "str", "list", "dict",
              "float", "tuple", "set", "frozenset", "bytes", "bytearray"}

TypeTable ==
    [t \in TypeNames |->
        CASE t = "Point"  -> ClassRow("__main__.Point", {"Point"}, Attr(<<"x", "y">>), NoAttr, NoAttr)
          [] t = "Opaque" -> ClassRow("__main__.Opaque", {"Opaque"}, NoAttr, NoAttr, NoAttr)
          [] t = "DPoint" -> ClassRow("__main__.DPoint", {"DPoint"}, NoAttr, Attr(<<"x", "y">>), NoAttr)
          [] t = "Color"  -> ClassRow("__main__.Color", {"Color"}, NoAttr, NoAttr, NoAttr)
          [] t = "bool"   -> ClassRow("builtins.bool", {"bool", "int"}, NoAttr, NoAttr, NoAttr)
          [] OTHER        -> ClassRow("builtins." \o t, {t}, NoAttr, NoAttr, NoAttr)]

\* type(v).__name__
TypeOf(v) == IF v.k = "obj" THEN v.cls ELSE v.k

IsType(v) == v.k = "type"
IsInstance(v, t) == TypeOf(v) \in TypeNames /\ t.name \in TypeTable[TypeOf(v)].mro

\* class attributes of the host's classes (constants such as Color.RED)
ClassAttrs(t) ==
    IF t = "Color" THEN ("RED" :> PyInt(0)) @@ ("GREEN" :> PyInt(1)) ELSE EmptyDict

\* getattr(v, n): the attributes of an instance, the class attributes of a
\* type; the model's builtin values have none of the names used
HasAttr(v, n) ==
    \/ v.k = "obj" /\ n \in DOMAIN v.attrs
    \/ v.k = "type" /\ n \in DOMAIN ClassAttrs(v.name)
GetAttr(v, n) == IF v.k = "obj" THEN v.attrs[n] ELSE ClassAttrs(v.name)[n]

(***************************************************************************)
(* Python sequences and mappings (typing.Sequence, typing.Mapping).        *)
(***************************************************************************)
\* a reading of sequence that leaves text and byte strings out
IsSequence_not_strings(v) == v.k \in {"list", "tuple"}
\* isinstance(v, Sequence): list, tuple, str and bytes are registered as
\* Sequence; dict, set, numbers and plain instances are not
IsSequence(v) == v.k \in {"list", "tuple", "str", "bytes"}
IsMapping(v) == v.k = "dict"

\* the elements a for loop over the sequence yields
Elems(v) == IF v.k \in {"list", "tuple"} THEN v.items
            ELSE IF v.k = "bytes" THEN [i \in 1..Len(v.items) |-> PyInt(v.items[i])]
            ELSE [i \in 1..Len(v.chars) |-> PyStr(<<v.chars[i]>>)]
PyLen(v) == IF v.k = "str" THEN Len(v.chars) ELSE Len(v.items)

\* an index of a slice, as Python normalises it: negative counts from the
\* end, and the result is clamped to 0..len
SliceIndex(i, n) == IF i < 0 THEN Max(i + n, 0) ELSE Min(i, n)
\* v[start:stop], of the type of v
PySlice(v, start, stop) ==
    LET n == PyLen(v)
        a == SliceIndex(start, n)
        b == SliceIndex(stop, n)
    IN  IF v.k = "str" THEN PyStr(SubSeq(v.chars, a + 1, b))
        ELSE [k |-> v.k, items |-> SubSeq(v.items, a + 1, b)]

(***************************************************************************)
(* match_args_data: the registry.                                          *)
(***************************************************************************)
special_attributes == {"<self>"}

builtin_types == {"list", "set", "dict", "frozenset", "tuple", "bool", "float",
                  "int", "str", "bytes", "bytearray"}
builtin_match_args == [t \in builtin_types |-> <<"<self>">>]

module_qualname(t) == TypeTable[t.name].qualname

\* the handlers the module registers when it is imported (is_dataclass,
\* _is_namedtuple), and one a host may register for its own types
HandlerAccepts(h, t) ==
    CASE h = "dataclass" -> TypeTable[t.name].dataclass.has
      [] h = "namedtuple" -> TypeTable[t.name].namedtuple.has
      [] h = "host" -> t.name = "Opaque"
HandlerArgs(h, t) ==
    CASE h = "dataclass" -> TypeTable[t.name].dataclass.v
      [] h = "namedtuple" -> TypeTable[t.name].namedtuple.v
      [] h = "host" -> <<"y">>

RECURSIVE first_handler(_, _)
first_handler(t, i) ==
    IF i > Len(special_handlers) THEN <<>>
    ELSE IF HandlerAccepts(special_handlers[i], t) THEN HandlerArgs(special_handlers[i], t)
    ELSE first_handler(t, i + 1)

\* mutant: the override table is consulted before the type's own declaration
\* and before the builtin table
match_args_override_first(t) ==
    IF module_qualname(t) \in DOMAIN known_cases THEN known_cases[module_qualname(t)]
    ELSE IF t.name \in builtin_types THEN builtin_match_args[t.name]
    ELSE IF TypeTable[t.name].match_args.has THEN TypeTable[t.name].match_args.v
    ELSE first_handler(t, 1)

\* mutant: the builtin table is not consulted
match_args_no_builtins(t) ==
    IF TypeTable[t.name].match_args.has THEN TypeTable[t.name].match_args.v
    ELSE IF module_qualname(t) \in DOMAIN known_cases THEN known_cases[module_qualname(t)]
    ELSE first_handler(t, 1)

\* mutant: a type that nothing knows is given the field list of a builtin
match_args_default_self(t) ==
    IF TypeTable[t.name].match_args.has THEN TypeTable[t.name].match_args.v
    ELSE IF t.name \in builtin_types THEN builtin_match_args[t.name]
    ELSE IF module_qualname(t) \in DOMAIN known_cases THEN known_cases[module_qualname(t)]
    ELSE IF first_handler(t, 1) = <<>> THEN <<"<self>">>
    ELSE first_handler(t, 1)

\* __match_args__(t): the type's own declaration, else the builtin table,
\* else known_cases, else the first accepting handler, else ()
__match_args__(t) ==
    IF TypeTable[t.name].match_args.has THEN TypeTable[t.name].match_args.v
    ELSE IF t.name \in builtin_types THEN builtin_match_args[t.name]
    ELSE IF module_qualname(t) \in DOMAIN known_cases THEN known_cases[module_qualname(t)]
    ELSE first_handler(t, 1)

\* what match_args_and_kwargs returns on success: (pattern, value) pairs
Pairs(ps) == [k |-> "pairs", pairs |-> ps]

\* the steps of match_args_and_kwargs after the arity check
named_pairs(ma, val, args, kwargs, check_duplicates, missing) ==
    LET kwnames == {kwargs[i][1] : i \in DOMAIN kwargs}
        n == Min(Len(ma), Len(args))
        taken(i) == kwnames \cup {ma[j] : j \in 1..(i - 1)}
        named_args == [i \in 1..n |-> <<ma[i], args[i]>>]
        all == named_args \o kwargs
        readable(x) == x \in special_attributes \/ HasAttr(val, x)
        read(x) == IF x \in special_attributes THEN val ELSE GetAttr(val, x)
    IN  IF check_duplicates /\ \E i \in 1..n : ma[i] \in taken(i)
        THEN Raise("TypeError", "Duplicate keyword")
        ELSE IF \E i \in DOMAIN all : ~readable(all[i][1])
        THEN missing
        ELSE Pairs([i \in DOMAIN all |-> <<all[i][2], read(all[i][1])>>])

\* mutant: the arity check is left out, zip drops the surplus positionals
match_args_and_kwargs_no_arity_check(t, val, args, kwargs) ==
    IF Len(args) = 0 /\ Len(kwargs) = 0 THEN Pairs(<<>>)
    ELSE named_pairs(__match_args__(t), val, args, kwargs, TRUE, PyNone)

\* mutant: a name given by position and by keyword is not detected
match_args_and_kwargs_no_duplicate_check(t, val, args, kwargs) ==
    IF Len(args) = 0 /\ Len(kwargs) = 0 THEN Pairs(<<>>)
    ELSE IF Len(__match_args__(t)) < Len(args)
    THEN Raise("TypeError", "Too many positional arguments")
    ELSE named_pairs(__match_args__(t), val, args, kwargs, FALSE, PyNone)

\* mutant: the AttributeError of a missing field is not caught
match_args_and_kwargs_attribute_error(t, val, args, kwargs) ==
    IF Len(args) = 0 /\ Len(kwargs) = 0 THEN Pairs(<<>>)
    ELSE IF Len(__match_args__(t)) < Len(args)
    THEN Raise("TypeError", "Too many positional arguments")
    ELSE named_pairs(__match_args__(t), val, args, kwargs, TRUE, Raise("AttributeError", ""))

\* mutant: the keyword sub-patterns are dropped
match_args_and_kwargs_positional_only(t, val, args, kwargs) ==
    IF Len(args) = 0 /\ Len(kwargs) = 0 THEN Pairs(<<>>)
    ELSE IF Len(__match_args__(t)) < Len(args)
    THEN Raise("TypeError", "Too many positional arguments")
    ELSE named_pairs(__match_args__(t), val, args, <<>>, TRUE, PyNone)

match_args_and_kwargs(t, val, args, kwargs) ==
    IF Len(args) = 0 /\ Len(kwargs) = 0 THEN Pairs(<<>>)
    ELSE
    LET ma == __match_args__(t)
        kwnames == {kwargs[i][1] : i \in DOMAIN kwargs}
        \* n in taken, for the i-th of zip(ma, args)
        taken(i) == kwnames \cup {ma[j] : j \in 1..(i - 1)}
        named_args == [i \in 1..Len(args) |-> <<ma[i], args[i]>>]
        all == named_args \o kwargs
        readable(n) == n \in special_attributes \/ HasAttr(val, n)
        read(n) == IF n \in special_attributes THEN val ELSE GetAttr(val, n)
    IN  IF Len(ma) < Len(args)
        THEN Raise("TypeError", "Too many positional arguments")
        ELSE IF \E i \in 1..Len(args) : ma[i] \in taken(i)
        THEN Raise("TypeError", "Duplicate keyword")
        ELSE IF \E i \in DOMAIN all : ~readable(all[i][1])
        THEN PyNone
        ELSE Pairs([i \in DOMAIN all |-> <<all[i][2], read(all[i][1])>>])

(***************************************************************************)
(* pattern_engine: the Pattern classes.                                    *)
(***************************************************************************)
NoStar == "<None>"   \* PtMapping.star = None

PtCaptureAs(base, name) == [k |-> "PtCaptureAs", base |-> base, name |-> name]
PtCapture(name) == [k |-> "PtCapture", name |-> name]
PtOr(options) == [k |-> "PtOr", options |-> options]
PtLiteral(v) == [k |-> "PtLiteral", value |-> v]
PtValue(attributes) == [k |-> "PtValue", attributes |-> attributes]
PtClass(cls, args, kwargs) == [k |-> "PtClass", cls |-> cls, args |-> args, kwargs |-> kwargs]
PtFixedSequence(elements) == [k |-> "PtFixedSequence", elements |-> elements]
PtMapping(elements, star) == [k |-> "PtMapping", elements |-> elements, star |-> star]
PtVariableSequence(pre, star, post) ==
    [k |-> "PtVariableSequence", pre |-> pre, star |-> star, post |-> post]

IsPattern(x) ==
    x.k \in {"PtCaptureAs", "PtCapture", "PtOr", "PtLiteral", "PtValue", "PtClass",
             "PtFixedSequence", "PtMapping", "PtVariableSequence"}

\* the names a Matcher was constructed with (Matcher.__names__)
MatcherNames ==
    [n \in {"Point", "Opaque", "DPoint", "Color"} \cup builtin_types |-> PyType(n)]
        @@ ("ZERO" :> PyInt(0)) @@ ("RED" :> PyInt(0)) @@ ("KEY" :> PyStr(<<"a">>))

\* Matcher.__init__(*args, **kwargs): __names__ is kwargs, and then each
\* positional object is entered under its __name__; of the model's values
\* the types have a __name__
RECURSIVE Matcher_init_loop(_, _, _)
Matcher_init_loop(args, i, ns) ==
    IF i > Len(args) THEN [k |-> "value", v |-> ns]
    ELSE IF args[i].k = "type"
         THEN Matcher_init_loop(args, i + 1, (args[i].name :> args[i]) @@ ns)
    ELSE Raise("ValueError", "no __name__")

Matcher_init(args, kwargs) == Matcher_init_loop(args, 1, kwargs)

\* mutant: a name the Matcher was not given is looked up among the builtins
Matcher_get_of_builtins(ns, name) ==
    IF name \in DOMAIN ns THEN [k |-> "value", v |-> ns[name]]
    ELSE IF name \in {"int", "str", "list", "dict"} THEN [k |-> "value", v |-> PyType(name)]
    ELSE Raise("NameError", "")

\* Matcher._get on a Matcher whose __names__ is ns
Matcher_get_of(ns, name) ==
    IF name \in DOMAIN ns THEN [k |-> "value", v |-> ns[name]]
    ELSE Raise("NameError", "")

\* Matcher._get
Matcher_get(name) == Matcher_get_of(MatcherNames, name)

RECURSIVE getattr_chain(_, _, _)
getattr_chain(v, attributes, i) ==
    IF i > Len(attributes) THEN [k |-> "value", v |-> v]
    ELSE IF HasAttr(v, attributes[i]) THEN getattr_chain(GetAttr(v, attributes[i]), attributes, i + 1)
    ELSE Raise("AttributeError", attributes[i])

PtLiteral_calc_value(p) == [k |-> "value", v |-> p.value]

PtValue_calc_value(p) ==
    LET first == Matcher_get(p.attributes[1])
    IN  IF first.k = "raise" THEN first ELSE getattr_chain(first.v, p.attributes, 2)

calc_value(p) ==
    IF p.k = "PtLiteral" THEN PtLiteral_calc_value(p) ELSE PtValue_calc_value(p)

RECURSIVE Match(_, _)

PtCaptureAs_match(p, v) ==
    LET r == Match(p.base, v)
    IN  IF r.k = "bindings" THEN Bindings((p.name :> v) @@ r.b) ELSE r

PtCapture_match(p, v) == Bindings(p.name :> v)

RECURSIVE PtOr_loop(_, _, _)
PtOr_loop(p, v, i) ==
    IF i > Len(p.options) THEN PyNone
    ELSE LET r == Match(p.options[i], v)
         IN  IF r # PyNone THEN r ELSE PtOr_loop(p, v, i + 1)

\* mutant: the loop does not stop at the first success, the last one wins
RECURSIVE PtOr_loop_last(_, _, _, _)
PtOr_loop_last(p, v, i, best) ==
    IF i > Len(p.options) THEN best
    ELSE LET r == Match(p.options[i], v)
         IN  IF r.k = "raise" THEN r
             ELSE PtOr_loop_last(p, v, i + 1, IF r # PyNone THEN r ELSE best)

PtOr_match_last(p, v) == PtOr_loop_last(p, v, 1, PyNone)

PtOr_match(p, v) == PtOr_loop(p, v, 1)

\* mutant: an error of calc_value is caught and reported as a failed match
PtConstant_match_error_fails(p, v) ==
    LET c == calc_value(p)
    IN  IF c.k = "raise" THEN PyNone
        ELSE IF PyEq(c.v, v) THEN Bindings(EmptyDict) ELSE PyNone

PtConstant_match(p, v) ==
    LET c == calc_value(p)
    IN  IF c.k = "raise" THEN c
        ELSE IF PyEq(c.v, v) THEN Bindings(EmptyDict) ELSE PyNone

\* the loop over (pattern, value) pairs of PtClass.match
RECURSIVE PtClass_loop(_, _, _)
PtClass_loop(ps, i, out) ==
    IF i > Len(ps) THEN Bindings(out)
    ELSE LET res == Match(ps[i][1], ps[i][2])
         IN  IF res.k = "bindings" THEN PtClass_loop(ps, i + 1, Update(out, res.b))
             ELSE res

\* what match_args_and_kwargs returned, or NotCalled if it was not reached
PtClass_pairs(p, v) ==
    LET t == PtValue_calc_value(p.cls)
    IN  IF t.k = "raise" \/ ~IsType(t.v) THEN NotCalled
        ELSE IF ~IsInstance(v, t.v) THEN NotCalled
        ELSE match_args_and_kwargs(t.v, v, p.args, p.kwargs)

PtClass_match(p, v) ==
    LET t == PtValue_calc_value(p.cls)
        prs == PtClass_pairs(p, v)
    IN  IF t.k = "raise" THEN t
        ELSE IF ~IsType(t.v) THEN Raise("AssertionError", "")
        ELSE IF ~IsInstance(v, t.v) THEN PyNone
        ELSE IF prs.k # "pairs" THEN prs
        ELSE PtClass_loop(prs.pairs, 1, EmptyDict)

\* _match_all: zip_longest pads the shorter of the two with None
RECURSIVE match_all_loop(_, _, _, _)
match_all_loop(pts, elems, i, out) ==
    IF i > Max(Len(pts), Len(elems)) THEN Bindings(out)
    ELSE IF i > Len(pts) THEN Raise("AttributeError", "match")
    ELSE LET cvar == Match(pts[i], IF i <= Len(elems) THEN elems[i] ELSE PyNone)
         IN  IF cvar.k = "bindings" THEN match_all_loop(pts, elems, i + 1, Update(out, cvar.b))
             ELSE cvar

_match_all(pts, v) == match_all_loop(pts, Elems(v), 1, EmptyDict)

\* mutant: the length test lets a shorter value through
PtFixedSequence_match_shorter(p, v) ==
    IF ~IsSequence(v) THEN PyNone
    ELSE IF PyLen(v) > Len(p.elements) THEN PyNone
    ELSE _match_all(p.elements, v)

PtFixedSequence_match(p, v) ==
    IF ~IsSequence(v) THEN PyNone
    ELSE IF PyLen(v) # Len(p.elements) THEN PyNone
    ELSE _match_all(p.elements, v)

\* the loop over the (key pattern, value pattern) entries of PtMapping.match;
\* used collects the key patterns, as the code does
RECURSIVE PtMapping_loop(_, _, _, _, _)
PtMapping_loop(p, v, i, out, used) ==
    IF i > Len(p.elements)
    THEN IF p.star # NoStar
         THEN Bindings(Update(out, p.star :> PyDict([key \in {x \in DOMAIN v.d : x \notin used} |-> v.d[key]])))
         ELSE Bindings(out)
    ELSE LET kp == p.elements[i][1]
             vp == p.elements[i][2]
             key == calc_value(kp)
         IN  IF key.k = "raise" THEN key
             ELSE IF ~(\E x \in DOMAIN v.d : PyEq(x, key.v)) THEN PyNone
             ELSE LET val == v.d[CHOOSE x \in DOMAIN v.d : PyEq(x, key.v)]
                      cvar == Match(vp, val)
                  IN  IF cvar.k = "bindings"
                      THEN PtMapping_loop(p, v, i + 1, Update(out, cvar.b), used \cup {kp})
                      ELSE cvar

\* mutant: a key that is not listed fails the match
PtMapping_match_exact_keys(p, v) ==
    IF ~IsMapping(v) THEN PyNone
    ELSE IF Cardinality(DOMAIN v.d) > Len(p.elements) THEN PyNone
    ELSE PtMapping_loop(p, v, 1, EmptyDict, {})

PtMapping_match(p, v) ==
    IF ~IsMapping(v) THEN PyNone
    ELSE PtMapping_loop(p, v, 1, EmptyDict, {})

\* mutant: the slices count len(post) from the end with a negative index,
\* which is the whole value when post is empty
PtVariableSequence_match_negative_index(p, v) ==
    IF ~IsSequence(v) THEN PyNone
    ELSE IF PyLen(v) < Len(p.pre) + Len(p.post) THEN PyNone
    ELSE
    LET pre_val == PySlice(v, 0, Len(p.pre))
        post_val == PySlice(v, 0 - Len(p.post), PyLen(v))
        star_val == PySlice(v, Len(p.pre), 0 - Len(p.post))
        pre_out == _match_all(p.pre, pre_val)
        post_out == _match_all(p.post, post_val)
    IN  IF pre_out.k # "bindings" THEN pre_out
        ELSE IF post_out.k # "bindings" THEN post_out
        ELSE Bindings(post_out.b @@ (p.star :> star_val) @@ pre_out.b)

PtVariableSequence_match(p, v) ==
    IF ~IsSequence(v) THEN PyNone
    ELSE IF PyLen(v) < Len(p.pre) + Len(p.post) THEN PyNone
    ELSE
    LET pre_val == PySlice(v, 0, Len(p.pre))
        post_val == PySlice(v, PyLen(v) - Len(p.post), PyLen(v))
        star_val == PySlice(v, Len(p.pre), PyLen(v) - Len(p.post))
        pre_out == _match_all(p.pre, pre_val)
        post_out == _match_all(p.post, post_val)
    IN  IF pre_out.k # "bindings" THEN pre_out
        ELSE IF post_out.k # "bindings" THEN post_out
        ELSE Bindings(post_out.b @@ (p.star :> star_val) @@ pre_out.b)

\* Pattern.match, dispatched on the class of the pattern
Match(p, v) ==
    CASE p.k = "PtCaptureAs" -> PtCaptureAs_match(p, v)
      [] p.k = "PtCapture" -> PtCapture_match(p, v)
      [] p.k = "PtOr" -> PtOr_match(p, v)
      [] p.k \in {"PtLiteral", "PtValue"} -> PtConstant_match(p, v)
      [] p.k = "PtClass" -> PtClass_match(p, v)
      [] p.k = "PtFixedSequence" -> PtFixedSequence_match(p, v)
      [] p.k = "PtMapping" -> PtMapping_match(p, v)
      [] p.k = "PtVariableSequence" -> PtVariableSequence_match(p, v)

(***************************************************************************)
(* Pattern.match again, followed for the identity of the dicts it creates, *)
(* returns and writes to.  A dict is identified by the call that created   *)
(* it and the place in the pattern whose match method created it; each     *)
(* method is read for its dict displays ({}, {name: value}, {**a, **b}),   *)
(* which create a dict, and for its item assignments and update calls,     *)
(* which write to one.                                                     *)
(***************************************************************************)
NewDict(cl, site) == [call |-> cl, site |-> site]
NoDict == [call |-> 0, site |-> "None"]
\* a dict that exists before any call, as a module-level constant would
SharedDict == [call |-> 0, site |-> "EMPTY"]
Outcome(ret, written) == [ret |-> ret, written |-> written]

RECURSIVE match_obj(_, _, _, _)

\* r = self.base.match(...); r[self.name] = value; return r
PtCaptureAs_match_obj(p, v, cl, site) ==
    LET r == match_obj(p.base, v, cl, site \o ".base")
    IN  IF r.ret # NoDict THEN Outcome(r.ret, r.written \cup {r.ret}) ELSE r

\* return {self.name: value}
PtCapture_match_obj(p, v, cl, site) == Outcome(NewDict(cl, site), {})

RECURSIVE PtOr_loop_obj(_, _, _, _, _, _)
PtOr_loop_obj(p, v, cl, site, i, written) ==
    IF i > Len(p.options) THEN Outcome(NoDict, written)
    ELSE LET r == match_obj(p.options[i], v, cl, site \o ".option" \o ToString(i))
         IN  IF r.ret # NoDict \/ Match(p.options[i], v).k = "raise"
             THEN Outcome(r.ret, written \cup r.written)
             ELSE PtOr_loop_obj(p, v, cl, site, i + 1, written \cup r.written)

\* mutant: the empty bindings are one dict made once and returned by every call
PtConstant_match_obj_shared(p, v, cl, site) ==
    IF PtConstant_match(p, v).k = "bindings" THEN Outcome(SharedDict, {})
    ELSE Outcome(NoDict, {})

\* return {} if self.calc_value(get) == value else None
PtConstant_match_obj(p, v, cl, site) ==
    IF PtConstant_match(p, v).k = "bindings" THEN Outcome(NewDict(cl, site), {})
    ELSE Outcome(NoDict, {})

\* out = {}; for each pair: res = pat.match(val, get); out.update(res)
RECURSIVE pairs_loop_obj(_, _, _, _, _)
pairs_loop_obj(ps, cl, site, i, written) ==
    IF i > Len(ps) THEN Outcome(NewDict(cl, site), written)
    ELSE LET res == match_obj(ps[i][1], ps[i][2], cl, site \o "." \o ToString(i))
         IN  IF res.ret # NoDict
             THEN pairs_loop_obj(ps, cl, site, i + 1,
                                 written \cup res.written \cup {NewDict(cl, site)})
             ELSE Outcome(NoDict, written \cup res.written)

PtClass_match_obj(p, v, cl, site) ==
    LET prs == PtClass_pairs(p, v)
    IN  IF prs.k # "pairs" THEN Outcome(NoDict, {})
        ELSE pairs_loop_obj(prs.pairs, cl, site, 1, {})

\* _match_all pairs the patterns with the elements, padded with None
match_all_obj(pts, v, cl, site) ==
    LET elems == Elems(v)
        n == Max(Len(pts), Len(elems))
    IN  IF Len(pts) < n THEN Outcome(NoDict, {})
        ELSE pairs_loop_obj([i \in 1..n |-> <<pts[i], IF i <= Len(elems) THEN elems[i] ELSE PyNone>>],
                            cl, site, 1, {})

PtFixedSequence_match_obj(p, v, cl, site) ==
    IF ~IsSequence(v) THEN Outcome(NoDict, {})
    ELSE IF PyLen(v) # Len(p.elements) THEN Outcome(NoDict, {})
    ELSE match_all_obj(p.elements, v, cl, site)

\* out = {}; out.update(cvar) for each entry; out[self.star] = {...}
RECURSIVE PtMapping_loop_obj(_, _, _, _, _, _)
PtMapping_loop_obj(p, v, cl, site, i, written) ==
    LET out == NewDict(cl, site)
    IN  IF i > Len(p.elements)
        THEN Outcome(out, IF p.star # NoStar THEN written \cup {out} ELSE written)
        ELSE LET key == calc_value(p.elements[i][1])
             IN  IF key.k = "raise" THEN Outcome(NoDict, written)
                 ELSE IF ~(\E x \in DOMAIN v.d : PyEq(x, key.v)) THEN Outcome(NoDict, written)
                 ELSE LET val == v.d[CHOOSE x \in DOMAIN v.d : PyEq(x, key.v)]
                          cvar == match_obj(p.elements[i][2], val, cl, site \o "." \o ToString(i))
                      IN  IF cvar.ret # NoDict
                          THEN PtMapping_loop_obj(p, v, cl, site, i + 1,
                                                  written \cup cvar.written \cup {out})
                          ELSE Outcome(NoDict, written \cup cvar.written)

PtMapping_match_obj(p, v, cl, site) ==
    IF ~IsMapping(v) THEN Outcome(NoDict, {})
    ELSE PtMapping_loop_obj(p, v, cl, site, 1, {})

\* return {**pre_out, self.star: star_val, **post_out}
PtVariableSequence_match_obj(p, v, cl, site) ==
    IF ~IsSequence(v) THEN Outcome(NoDict, {})
    ELSE IF PyLen(v) < Len(p.pre) + Len(p.post) THEN Outcome(NoDict, {})
    ELSE
    LET pre_out == match_all_obj(p.pre, PySlice(v, 0, Len(p.pre)), cl, site \o ".pre")
        post_out == match_all_obj(p.post, PySlice(v, PyLen(v) - Len(p.post), PyLen(v)),
                                  cl, site \o ".post")
    IN  IF pre_out.ret = NoDict THEN pre_out
        ELSE IF post_out.ret = NoDict THEN Outcome(NoDict, pre_out.written \cup post_out.written)
        ELSE Outcome(NewDict(cl, site), pre_out.written \cup post_out.written)

match_obj(p, v, cl, site) ==
    CASE p.k = "PtCaptureAs" -> PtCaptureAs_match_obj(p, v, cl, site)
      [] p.k = "PtCapture" -> PtCapture_match_obj(p, v, cl, site)
      [] p.k = "PtOr" -> PtOr_loop_obj(p, v, cl, site, 1, {})
      [] p.k \in {"PtLiteral", "PtValue"} -> PtConstant_match_obj(p, v, cl, site)
      [] p.k = "PtClass" -> PtClass_match_obj(p, v, cl, site)
      [] p.k = "PtFixedSequence" -> PtFixedSequence_match_obj(p, v, cl, site)
      [] p.k = "PtMapping" -> PtMapping_match_obj(p, v, cl, site)
      [] p.k = "PtVariableSequence" -> PtVariableSequence_match_obj(p, v, cl, site)

(***************************************************************************)
(* pattern_engine: Lark2Pattern, the transformer from the parser's tree to *)
(* a Pattern.  Children are transformed first; a Token or None stays as it *)
(* is.  The text of a NUMBER or STRING token is a sequence of characters.  *)
(***************************************************************************)
Tree(data, children) == [k |-> "Tree", data |-> data, children |-> children]
Token(type, v) == [k |-> "Token", type |-> type, value |-> v]
\* the str that star_pattern returns in place of a Pattern
StarStr(n) == [k |-> "starstr", value |-> n]

DigitValue == [c \in {"0", "1", "2", "3", "4", "5", "6", "7", "8", "9"} |->
    CASE c = "0" -> 0 [] c = "1" -> 1 [] c = "2" -> 2 [] c = "3" -> 3 [] c = "4" -> 4
      [] c = "5" -> 5 [] c = "6" -> 6 [] c = "7" -> 7 [] c = "8" -> 8 [] c = "9" -> 9]

\* eval of the text of a decimal NUMBER token
RECURSIVE eval_number(_)
eval_number(cs) ==
    IF Len(cs) = 0 THEN 0
    ELSE 10 * eval_number(SubSeq(cs, 1, Len(cs) - 1)) + DigitValue[cs[Len(cs)]]

\* eval of the text of a STRING token without escapes: the quotes go
eval_string(cs) == SubSeq(cs, 2, Len(cs) - 1)

\* x or ()
OrEmpty(x) == IF x = PyNone \/ (x.k = "tuple" /\ Len(x.items) = 0) THEN PyTuple(<<>>) ELSE x

Lark2Pattern_arguments(ch) ==
    IF Len(ch) = 2 THEN PyTuple(<<OrEmpty(ch[1]), OrEmpty(ch[2])>>)
    ELSE IF Len(ch) = 1 THEN PyTuple(<<PyTuple(<<>>), OrEmpty(ch[1])>>)
    ELSE Raise("ValueError", "unpack")

Lark2Pattern_class_pattern(ch) ==
    LET args == IF ch[2] = PyNone THEN PyTuple(<<PyTuple(<<>>), PyTuple(<<>>)>>) ELSE ch[2]
        kw == args.items[2].items
    IN  PtClass(ch[1], args.items[1].items, [i \in DOMAIN kw |-> kw[i].items])

Lark2Pattern_sequence(ch) ==
    IF \E i \in DOMAIN ch : ch[i].k = "starstr"
    THEN LET n == CHOOSE i \in DOMAIN ch :
                      /\ ch[i].k = "starstr"
                      /\ \A j \in 1..(i - 1) : ch[j].k # "starstr"
             pre == SubSeq(ch, 1, n - 1)
             post == SubSeq(ch, n + 1, Len(ch))
         IN  IF \E i \in DOMAIN post : post[i].k = "starstr"
             THEN Raise("AssertionError", "")
             ELSE PtVariableSequence(pre, ch[n].value, post)
    ELSE PtFixedSequence(ch)

Lark2Pattern_callback(data, ch) ==
    CASE data = "value" -> PtValue([i \in DOMAIN ch |-> ch[i].value])
      [] data = "none" -> PtLiteral(PyNone)
      [] data = "true" -> PtLiteral(PyBool(TRUE))
      [] data = "false" -> PtLiteral(PyBool(FALSE))
      [] data = "number" -> PtLiteral(PyInt(eval_number(ch[1].value)))
      [] data = "string" -> PtLiteral(PyStr(eval_string(ch[1].value)))
      [] data = "pos" -> PyTuple(ch)
      [] data = "keyw" -> PyTuple(<<ch[1].value, ch[2]>>)
      [] data = "keyws" -> PyTuple(ch)
      [] data = "arguments" -> Lark2Pattern_arguments(ch)
      [] data = "class_pattern" -> Lark2Pattern_class_pattern(ch)
      [] data = "capture" -> PtCapture(ch[1].value)
      [] data = "mapping" -> PtMapping([i \in DOMAIN ch |-> ch[i].items], NoStar)
      [] data = "mapping_star" ->
            PtMapping([i \in 1..(Len(ch) - 1) |-> ch[i].items], ch[Len(ch)].value)
      [] data = "mapping_item" -> PyTuple(<<ch[1], ch[2]>>)
      [] data = "sequence" -> Lark2Pattern_sequence(ch)
      [] data = "star_pattern" -> StarStr(ch[1].value)
      [] data = "or_pattern" -> PtOr(ch)
      [] data = "as_pattern" -> PtCaptureAs(ch[1], ch[2].value)
      [] data = "start" -> PyTuple(<<ch[1], ch[2]>>)
      [] OTHER -> Raise("NotImplementedError", data)

IsRaise(x) == x.k = "raise"

RECURSIVE Lark2Pattern_transform(_)
Lark2Pattern_transform(x) ==
    IF x.k # "Tree" THEN x
    ELSE LET ch == [i \in DOMAIN x.children |-> Lark2Pattern_transform(x.children[i])]
         IN  IF \E i \in DOMAIN ch : IsRaise(ch[i])
             THEN ch[CHOOSE i \in DOMAIN ch : IsRaise(ch[i]) /\ \A j \in 1..(i - 1) : ~IsRaise(ch[j])]
             ELSE Lark2Pattern_callback(x.data, ch)

(***************************************************************************)
(* pattern_engine: pattern_lark_parser.  A pattern text is a sequence of   *)
(* characters.  The lexer skips blanks and takes the longest NAME or       *)
(* NUMBER; a NAME that spells a keyword of the grammar is that keyword.    *)
(* The parser covers literals, names, dotted names, parentheses, or        *)
(* patterns, bracketed sequences with star items and class patterns        *)
(* without arguments.  Anonymous tokens are filtered from the tree; a rule *)
(* that starts with ? and has one child is replaced by its child.          *)
(***************************************************************************)
LowerChars == {"a", "b", "c", "d", "e", "f", "g", "h", "i", "j", "k", "l", "m",
               "n", "o", "p", "q", "r", "s", "t", "u", "v", "w", "x", "y", "z"}
UpperChars == {"A", "B", "C", "D", "E", "F", "G", "H", "I", "J", "K", "L", "M",
               "N", "O", "P", "Q", "R", "S", "T", "U", "V", "W", "X", "Y", "Z"}
DigitChars == DOMAIN DigitValue
\* NAME: /[a-zA-Z_][a-zA-Z_0-9]*/
NameStartChars == LowerChars \cup UpperChars \cup {"_"}
NameChars == NameStartChars \cup DigitChars

\* the anonymous tokens of the grammar
Punctuation ==
    ("(" :> "LPAR") @@ (")" :> "RPAR") @@ ("[" :> "LSQB") @@ ("]" :> "RSQB")
        @@ ("|" :> "VBAR") @@ ("," :> "COMMA") @@ ("*" :> "STAR") @@ ("." :> "DOT")
Keywords ==
    (<<"N", "o", "n", "e">> :> "NONE") @@ (<<"T", "r", "u", "e">> :> "TRUE")
        @@ (<<"F", "a", "l", "s", "e">> :> "FALSE")

\* the length of the longest prefix of cs made of characters of S
RECURSIVE RunLength(_, _)
RunLength(cs, S) ==
    IF Len(cs) = 0 \/ Head(cs) \notin S THEN 0 ELSE 1 + RunLength(Tail(cs), S)

Drop(cs, n) == SubSeq(cs, n + 1, Len(cs))

\* the str of a sequence of characters
RECURSIVE StrOf(_)
StrOf(cs) == IF Len(cs) = 0 THEN "" ELSE Head(cs) \o StrOf(Tail(cs))

\* the token stream of a text, or a raise at a character no terminal takes
RECURSIVE lex(_)
lex(cs) ==
    IF Len(cs) = 0 THEN <<>>
    ELSE IF Head(cs) = " " THEN lex(Tail(cs))
    ELSE
    LET c == Head(cs)
        n == IF c \in NameStartChars THEN RunLength(cs, NameChars)
             ELSE IF c \in DigitChars THEN RunLength(cs, DigitChars)
             ELSE 1
        lexeme == SubSeq(cs, 1, n)
        tok == IF c \in NameStartChars
               THEN IF lexeme \in DOMAIN Keywords THEN Token(Keywords[lexeme], lexeme)
                    ELSE Token("NAME", StrOf(lexeme))
               ELSE IF c \in DigitChars THEN Token("NUMBER", lexeme)
               ELSE IF c \in DOMAIN Punctuation THEN Token(Punctuation[c], lexeme)
               ELSE Raise("UnexpectedCharacters", c)
        rest == lex(Drop(cs, n))
    IN  IF tok.k = "raise" THEN <<tok>>
        ELSE IF Len(rest) > 0 /\ rest[1].k = "raise" THEN rest
        ELSE <<tok>> \o rest

\* a parse: the tree of the rule and the tokens that follow it
Parsed(t, rest) == [ok |-> TRUE, tree |-> t, rest |-> rest]
NoParse == [ok |-> FALSE]
NextIs(ts, type) == Len(ts) > 0 /\ Head(ts).type = type

\* NAME ("." NAME)*: the NAME tokens of the longest dotted name
RECURSIVE dotted_names(_)
dotted_names(ts) ==
    IF ~NextIs(ts, "NAME") THEN <<>>
    ELSE IF NextIs(Tail(ts), "DOT") /\ NextIs(Tail(Tail(ts)), "NAME")
    THEN <<Head(ts)>> \o dotted_names(Tail(Tail(ts)))
    ELSE <<Head(ts)>>

\* mutant: the alternative NAME -> capture is missing, every name is a value
name_tree_always_value(names) == Tree("value", names)

\* NAME -> capture, or attr: NAME ("." NAME)+ -> value
name_tree(names) ==
    IF Len(names) > 1 THEN Tree("value", names) ELSE Tree("capture", names)

RECURSIVE parse_or_pattern(_)
RECURSIVE parse_closed_pattern(_)
RECURSIVE parse_sequence(_, _)
RECURSIVE parse_or_rest(_, _)

\* ?closed_pattern
parse_closed_pattern(ts) ==
    IF Len(ts) = 0 THEN NoParse
    ELSE
    LET t == Head(ts)
        names == dotted_names(ts)
        after == Drop(ts, 2 * Len(names) - 1)
        inner == parse_or_pattern(Tail(ts))
    IN  CASE t.type = "NUMBER" -> Parsed(Tree("number", <<t>>), Tail(ts))
          [] t.type = "NONE" -> Parsed(Tree("none", <<>>), Tail(ts))
          [] t.type = "TRUE" -> Parsed(Tree("true", <<>>), Tail(ts))
          [] t.type = "FALSE" -> Parsed(Tree("false", <<>>), Tail(ts))
          [] t.type = "NAME" ->
                IF NextIs(after, "LPAR")
                THEN IF NextIs(Tail(after), "RPAR")
                     THEN Parsed(Tree("class_pattern", <<Tree("value", names), PyNone>>),
                                 Tail(Tail(after)))
                     ELSE NoParse
                ELSE Parsed(name_tree(names), after)
          [] t.type = "LPAR" ->
                IF inner.ok /\ NextIs(inner.rest, "RPAR")
                THEN Parsed(inner.tree, Tail(inner.rest))
                ELSE NoParse
          [] t.type = "LSQB" -> parse_sequence(Tail(ts), <<>>)
          [] OTHER -> NoParse

\* ("|" closed_pattern)*
parse_or_rest(ts, options) ==
    IF ~NextIs(ts, "VBAR") THEN Parsed(options, ts)
    ELSE LET o == parse_closed_pattern(Tail(ts))
         IN  IF o.ok THEN parse_or_rest(o.rest, Append(options, o.tree)) ELSE NoParse

\* ?or_pattern: closed_pattern ("|" closed_pattern)*
parse_or_pattern(ts) ==
    LET first == parse_closed_pattern(ts)
        all == parse_or_rest(first.rest, <<first.tree>>)
    IN  IF ~first.ok THEN NoParse
        ELSE IF ~all.ok THEN NoParse
        ELSE IF Len(all.tree) = 1 THEN Parsed(first.tree, all.rest)
        ELSE Parsed(Tree("or_pattern", all.tree), all.rest)

\* "[" _sequence "]" -> sequence, after the "[": items is what was parsed
parse_sequence(ts, items) ==
    IF NextIs(ts, "RSQB") THEN Parsed(Tree("sequence", items), Tail(ts))
    ELSE
    LET item == IF NextIs(ts, "STAR")
                THEN IF NextIs(Tail(ts), "NAME")
                     THEN Parsed(Tree("star_pattern", <<ts[2]>>), Drop(ts, 2))
                     ELSE NoParse
                ELSE parse_or_pattern(ts)
    IN  IF ~item.ok THEN NoParse
        ELSE IF NextIs(item.rest, "COMMA")
        THEN parse_sequence(Tail(item.rest), Append(items, item.tree))
        ELSE IF NextIs(item.rest, "RSQB")
        THEN Parsed(Tree("sequence", Append(items, item.tree)), Tail(item.rest))
        ELSE NoParse

\* pattern_lark_parser.parse(s): start has the pattern and the placeholder
\* None of the absent guard as its children
parse(s) ==
    LET ts == lex(s)
        pat == parse_or_pattern(ts)
    IN  IF Len(ts) > 0 /\ ts[1].k = "raise" THEN ts[1]
        ELSE IF pat.ok /\ Len(pat.rest) = 0 THEN Tree("start", <<pat.tree, PyNone>>)
        ELSE Raise("UnexpectedInput", "")

(***************************************************************************)
(* pattern_engine: Ast2Pattern, the compiler from a host expression (an    *)
(* ast node) to a Pattern.  A node is a record with its class as kind.     *)
(***************************************************************************)
AstName(id) == [k |-> "Name", id |-> id]
AstConstant(v) == [k |-> "Constant", value |-> v]
AstList(elts) == [k |-> "List", elts |-> elts]
AstTuple(elts) == [k |-> "Tuple", elts |-> elts]
AstStarred(v) == [k |-> "Starred", value |-> v]
AstAttribute(v, attr) == [k |-> "Attribute", value |-> v, attr |-> attr]
AstBinOp(left, o, right) == [k |-> "BinOp", left |-> left, op |-> o, right |-> right]
AstNamedExpr(target, v) == [k |-> "NamedExpr", target |-> target, value |-> v]
AstCall(func, args, keywords) ==
    [k |-> "Call", func |-> func, args |-> args, keywords |-> keywords]
AstKeyword(arg, v) == [k |-> "keyword", arg |-> arg, value |-> v]
AstDict(keys, values) == [k |-> "Dict", keys |-> keys, values |-> values]

\* the first raise among xs, if any
HasRaise(xs) == \E i \in DOMAIN xs : IsRaise(xs[i])
FirstRaise(xs) == xs[CHOOSE i \in DOMAIN xs : IsRaise(xs[i]) /\ \A j \in 1..(i - 1) : ~IsRaise(xs[j])]

RECURSIVE Ast2Pattern_visit(_)

\* the loop of visit_List: cur is "pre" or "post"
RECURSIVE visit_List_loop(_, _, _, _, _, _)
visit_List_loop(elts, i, cur, pre, post, star) ==
    IF i > Len(elts)
    THEN IF star = NoStar THEN PtFixedSequence(pre) ELSE PtVariableSequence(pre, star, post)
    ELSE IF elts[i].k # "Starred"
    THEN LET e == Ast2Pattern_visit(elts[i])
         IN  IF IsRaise(e) THEN e
             ELSE IF cur = "pre"
             THEN visit_List_loop(elts, i + 1, cur, Append(pre, e), post, star)
             ELSE visit_List_loop(elts, i + 1, cur, pre, Append(post, e), star)
    ELSE IF cur = "post" THEN Raise("ValueError", "Multiple stars in a list")
    ELSE IF elts[i].value.k # "Name" THEN Raise("AssertionError", "")
    ELSE visit_List_loop(elts, i + 1, "post", pre, post, elts[i].value.id)

Ast2Pattern_visit_List(node) == visit_List_loop(node.elts, 1, "pre", <<>>, <<>>, NoStar)

Ast2Pattern_visit_Call(node) ==
    LET args == [i \in DOMAIN node.args |-> Ast2Pattern_visit(node.args[i])]
        kws == [i \in DOMAIN node.keywords |-> Ast2Pattern_visit(node.keywords[i].value)]
    IN  IF node.func.k # "Name" THEN Raise("AssertionError", "")
        ELSE IF HasRaise(args) THEN FirstRaise(args)
        ELSE IF HasRaise(kws) THEN FirstRaise(kws)
        ELSE PtClass(PtValue(<<node.func.id>>), args,
                     [i \in DOMAIN kws |-> <<node.keywords[i].arg, kws[i]>>])

Ast2Pattern_visit_Attribute(node) ==
    LET base == Ast2Pattern_visit(node.value)
    IN  IF IsRaise(base) THEN base
        ELSE IF base.k = "PtCapture" THEN PtValue(<<base.name, node.attr>>)
        ELSE IF base.k = "PtValue" THEN PtValue(Append(base.attributes, node.attr))
        ELSE Raise("AssertionError", "")

\* the options of l | r: the options of an operand that is a PtOr are spliced in
Ast2Pattern_visit_BinOp(node) ==
    IF node.op = "BitOr"
    THEN LET l == Ast2Pattern_visit(node.left)
             r == Ast2Pattern_visit(node.right)
             lopt == IF l.k = "PtOr" THEN l.options ELSE <<l>>
             ropt == IF r.k = "PtOr" THEN r.options ELSE <<r>>
         IN  IF IsRaise(l) THEN l
             ELSE IF IsRaise(r) THEN r
             ELSE PtOr(lopt \o ropt)
    ELSE IF node.op = "MatMult"
    THEN IF node.left.k = "Name" /\ node.left.id = "c"
         THEN Ast2Pattern_visit(node.right)
         ELSE Raise("AssertionError", "")
    ELSE PyNone

\* the loop of visit_Dict: a key None is the ** entry
RECURSIVE visit_Dict_loop(_, _, _, _)
visit_Dict_loop(node, i, out, star) ==
    IF i > Min(Len(node.keys), Len(node.values)) THEN PtMapping(out, star)
    ELSE IF node.keys[i] = PyNone
    THEN IF star # NoStar \/ node.values[i].k # "Name" THEN Raise("AssertionError", "")
         ELSE visit_Dict_loop(node, i + 1, out, node.values[i].id)
    ELSE LET kp == Ast2Pattern_visit(node.keys[i])
             vp == Ast2Pattern_visit(node.values[i])
         IN  IF IsRaise(kp) THEN kp
             ELSE IF IsRaise(vp) THEN vp
             ELSE IF kp.k \notin {"PtLiteral", "PtValue"} THEN Raise("AssertionError", "")
             ELSE visit_Dict_loop(node, i + 1, Append(out, <<kp, vp>>), star)

Ast2Pattern_visit_Dict(node) == visit_Dict_loop(node, 1, <<>>, NoStar)

Ast2Pattern_visit_NamedExpr(node) ==
    LET v == Ast2Pattern_visit(node.value)
    IN  IF IsRaise(v) THEN v
        ELSE IF node.target.k # "Name" THEN Raise("AssertionError", "")
        ELSE PtCaptureAs(v, node.target.id)

Ast2Pattern_visit(node) ==
    CASE node.k = "Call" -> Ast2Pattern_visit_Call(node)
      [] node.k = "Constant" -> PtLiteral(node.value)
      [] node.k \in {"List", "Tuple"} -> Ast2Pattern_visit_List(node)
      [] node.k = "Name" -> PtCapture(node.id)
      [] node.k = "Attribute" -> Ast2Pattern_visit_Attribute(node)
      [] node.k = "BinOp" -> Ast2Pattern_visit_BinOp(node)
      [] node.k = "NamedExpr" -> Ast2Pattern_visit_NamedExpr(node)
      [] node.k = "Dict" -> Ast2Pattern_visit_Dict(node)
      [] OTHER -> Raise("NotImplementedError", "Unknown construct")

ast2pattern(a) == Ast2Pattern_visit(a)

(***************************************************************************)
(* pattern_engine: str2pattern and its functools.lru_cache.  The cache is  *)
(* the sequence of its entries, least recently used first.  An entry has   *)
(* the text, the compiled object and, as the identity of that object, the  *)
(* number of the parse of the text that made it.                           *)
(***************************************************************************)
maxsize == 128      \* lru_cache() is lru_cache(maxsize=128)

\* the body of str2pattern
str2pattern_body(s) ==
    LET st == parse(s)
    IN  IF st.k = "raise" THEN st ELSE Lark2Pattern_transform(st)

CacheEntry(s, v, n) == [key |-> s, value |-> v, call |-> n]
CacheKeys(c) == {c[i].key : i \in DOMAIN c}
lru_index(c, s) == CHOOSE i \in DOMAIN c : c[i].key = s
\* a hit makes the entry the most recently used
lru_hit(c, s) ==
    LET i == lru_index(c, s)
    IN  SubSeq(c, 1, i - 1) \o SubSeq(c, i + 1, Len(c)) \o <<c[i]>>

\* after the function returned: if the key was added to the cache while it
\* ran, the cache stays as it is; a full cache drops its oldest entry
lru_store(c, e) ==
    IF e.key \in CacheKeys(c) THEN c
    ELSE IF Len(c) >= maxsize THEN Append(Tail(c), e)
    ELSE Append(c, e)

Count(s) == IF s \in DOMAIN parsed THEN parsed[s] ELSE 0

\* a thread outside str2pattern; ret is what its last call returned
IdleThread == [pc |-> "idle", s |-> PyNone, made |-> PyNone, ret |-> PyNone]

(***************************************************************************)
(* The inputs of the model: values, patterns and syntax trees.             *)
(***************************************************************************)
\* all sequences over S of length lo..hi
SeqsOf(S, lo, hi) == UNION {[1..n -> S] : n \in lo..hi}

IntVals == {PyInt(0), PyInt(1)}
StrVals == {PyStr(<<>>), PyStr(<<"a", "b">>)}
ListVals == {PyList(xs) : xs \in SeqsOf(IntVals, 0, MaxSeqLen)}
KeyVals == {PyStr(<<"a">>), PyStr(<<"b">>), PyStr(<<"c">>)}
DictVals == {PyDict(f) : f \in UNION {[K -> IntVals] : K \in SUBSET KeyVals}}

\* instances: a Point or an Opaque may lack y
AttrsXY(xs, ys) == {("x" :> x) @@ ("y" :> y) : x \in xs, y \in ys}
ObjVals ==
    {PyObj("Point", at) : at \in AttrsXY(IntVals, IntVals) \cup {("x" :> x) : x \in IntVals}}
    \cup {PyObj("Opaque", at) : at \in AttrsXY(IntVals, {PyInt(0)}) \cup {("x" :> PyInt(0))}}
    \cup {PyObj("DPoint", at) : at \in AttrsXY({PyInt(0)}, IntVals)}

Values == IntVals \cup StrVals \cup ListVals \cup DictVals \cup ObjVals
\* the values of TEST_BUILTINS: numbers, text, containers and instances
BuiltinValues ==
    IntVals \cup {PyBool(TRUE), PyFloat(1)} \cup StrVals \cup DictVals \cup ObjVals
        \cup {PyList(xs) : xs \in SeqsOf(IntVals, 0, 1)}
ClassValues == ObjVals \cup {PyInt(0), PyList(<<>>)}

\* syntax trees of class patterns: T(), T(p, ...), T(p, ..., n=p, ...), T(n=p, ...)
NameToken(n) == Token("NAME", n)
LeafTrees == {Tree("capture", <<NameToken("a")>>), Tree("number", <<Token("NUMBER", <<"0">>)>>)}
KeywTrees ==
    {Tree("keyw", <<NameToken("x"), Tree("number", <<Token("NUMBER", <<"0">>)>>)>>),
     Tree("keyw", <<NameToken("x"), Tree("capture", <<NameToken("a")>>)>>),
     Tree("keyw", <<NameToken("y"), Tree("capture", <<NameToken("y")>>)>>)}
PosTrees == {Tree("pos", ch) : ch \in SeqsOf(LeafTrees, 1, MaxSub + 1)}
KeywsTrees == {Tree("keyws", ch) : ch \in SeqsOf(KeywTrees, 1, MaxSub)}
ArgumentsTrees ==
    {Tree("arguments", <<ps, kw>>) : ps \in PosTrees, kw \in KeywsTrees \cup {PyNone}}
    \cup {Tree("arguments", <<kw>>) : kw \in KeywsTrees}
ClassNames == {"Point", "Opaque", "DPoint", "Missing", "ZERO"}
ClassTrees ==
    {Tree("class_pattern", <<Tree("value", <<NameToken(c)>>), args>>) :
        c \in ClassNames, args \in ArgumentsTrees \cup {PyNone}}

\* sub-patterns of the sequence, mapping and or patterns
SeqLeaves == {PtCapture("a"), PtLiteral(PyInt(0))}
StarNames == {"a", "rest"}
KeyPatterns == {PtLiteral(PyStr(<<"a">>)), PtLiteral(PyStr(<<"b">>))}
MapLeaves == {PtCapture("a"), PtLiteral(PyInt(0))}
OrOptions ==
    {PtCapture("a"), PtCapture("b"), PtLiteral(PyInt(0)),
     PtFixedSequence(<<PtCapture("a"), PtCapture("b")>>),
     PtValue(<<"Color", "RED">>), PtClass(PtValue(<<"Missing">>), <<>>, <<>>),
     PtClass(PtValue(<<"Point">>), <<>>, <<<<"x", PtCapture("b")>>>>)}

FixedSequencePatterns == {PtFixedSequence(es) : es \in SeqsOf(SeqLeaves \cup {PtCapture("b")}, 0, MaxSub)}
VariableSequencePatterns ==
    {PtVariableSequence(pre, star, post) :
        pre \in SeqsOf(SeqLeaves, 0, MaxSub), star \in StarNames, post \in SeqsOf(SeqLeaves, 0, MaxSub)}
MappingPatterns ==
    {PtMapping(es, star) :
        es \in SeqsOf(KeyPatterns \X MapLeaves, 0, MaxSub), star \in StarNames \cup {NoStar}}
OrPatterns == {PtOr(os) : os \in SeqsOf(OrOptions, 1, MaxSub)}
\* p as n, with bases that capture n themselves
CaptureAsBases ==
    {PtCapture("a"), PtCapture("b"), PtLiteral(PyInt(0)),
     PtFixedSequence(<<PtCapture("a"), PtCapture("b")>>),
     PtClass(PtValue(<<"Point">>), <<PtCapture("a")>>, <<<<"y", PtCapture("a")>>>>)}
CaptureAsPatterns == {PtCaptureAs(b, n) : b \in CaptureAsBases, n \in {"a", "c"}}
\* T(p) for the builtin types, as in TEST_BUILTINS: str(url), float(duration)
BuiltinPatterns ==
    {PtClass(PtValue(<<t>>), <<p>>, <<>>) :
        t \in builtin_types, p \in {PtCapture("a"), PtLiteral(PyInt(1)), PtLiteral(PyStr(<<>>))}}

(***************************************************************************)
(* The state machine.  The registry is set up first (register,             *)
(* register_special); then a pattern is built, from a syntax tree or        *)
(* directly, and matched against a value.                                  *)
(***************************************************************************)
Init ==
    /\ known_cases = ("lark.tree.Tree" :> <<"data", "children">>)
                        @@ ("lark.lexer.Token" :> <<"type", "value">>)
    /\ special_handlers = <<"dataclass", "namedtuple">>
    /\ op = "init"
    /\ tree = PyNone
    /\ pattern = PyNone
    /\ value = PyNone
    /\ pairs = NotCalled
    /\ result = NotCalled
    /\ cache = <<>>
    /\ parsed = EmptyDict
    /\ threads = [t \in 1..MaxThreads |-> IdleThread]
    /\ text = <<>>
    /\ heap = EmptyDict
    /\ calls = <<>>
    /\ touched = {}
    /\ init_args = PyNone
    /\ __names__ = EmptyDict
    /\ lookup = ""
    /\ __value__ = PyNone
    /\ __vars__ = PyNone
    /\ case_log = <<>>
    /\ f_lineno = [f \in Frames |-> 1]
    /\ f_trace = [f \in Frames |-> PyNone]
    /\ f_trace_opcodes = [f \in Frames |-> FALSE]
    /\ sys_trace = PyNone
    /\ _orig_sys_trace = PyNone
    /\ _frame_tracer = EmptyDict
    /\ trace_counter = 0
    /\ registered = [f \in Frames |-> {}]
    /\ fired = [f \in Frames |-> {}]
    /\ orig_trace = [f \in Frames |-> PyNone]
    /\ ran = [f \in Frames |-> <<>>]
    /\ not_run = [f \in Frames |-> {}]
    /\ last_call = PyNone
    /\ __frame__ = NoAttribute
    /\ __to_reset__ = NoAttribute
    /\ f_locals = EmptyDict
    /\ f_globals = ("G" :> PyInt(0))
    /\ before = PyNone
    /\ injections = 0
    /\ matcher = PyNone
    /\ exe_log = <<>>
    /\ events = <<>>

\* the qualified names a host registers an override for: a class that
\* declares nothing, a class with its own __match_args__, a builtin
RegisteredNames == {"__main__.Opaque", "__main__.Point", "builtins.int"}

register ==
    /\ op = "init"
    /\ \E qn \in RegisteredNames, ma \in {<<"y", "x">>} :
            /\ Cardinality(DOMAIN known_cases \cup {qn}) <= MaxKnown
            /\ known_cases' = (qn :> ma) @@ known_cases
    /\ UNCHANGED <<special_handlers, op, tree, pattern, value, pairs, result>>
    /\ UNCHANGED <<cache_vars, text, heap_vars, host_vars>>

register_special ==
    /\ op = "init"
    /\ Len(special_handlers) < MaxHandlers
    /\ special_handlers' = Append(special_handlers, "host")
    /\ UNCHANGED <<known_cases, op, tree, pattern, value, pairs, result>>
    /\ UNCHANGED <<cache_vars, text, heap_vars, host_vars>>

\* Lark2Pattern().transform(st) of a class pattern
Transform ==
    /\ op = "init"
    /\ \E st \in ClassTrees :
        /\ tree' = st
        /\ pattern' = Lark2Pattern_transform(st)
        /\ result' = pattern'
    /\ op' = "transform"
    /\ UNCHANGED <<known_cases, special_handlers, value, pairs>>
    /\ UNCHANGED <<cache_vars, text, heap_vars, host_vars>>

\* pattern.match(value, get) of a compiled class pattern
MatchClass ==
    /\ op = "transform"
    /\ pattern.k = "PtClass"
    /\ \E v \in ClassValues :
        /\ value' = v
        /\ pairs' = PtClass_pairs(pattern, v)
        /\ result' = Match(pattern, v)
    /\ op' = "PtClass.match"
    /\ UNCHANGED <<known_cases, special_handlers, tree, pattern>>
    /\ UNCHANGED <<cache_vars, text, heap_vars, host_vars>>

\* PtClass.match(value, get) of a class pattern of a builtin type
MatchBuiltin ==
    /\ op = "init"
    /\ \E p \in BuiltinPatterns, v \in BuiltinValues :
        /\ pattern' = p
        /\ value' = v
        /\ pairs' = PtClass_pairs(p, v)
        /\ result' = Match(p, v)
    /\ op' = "PtClass.match"
    /\ UNCHANGED <<known_cases, special_handlers, tree>>
    /\ UNCHANGED <<cache_vars, text, heap_vars, host_vars>>

\* PtOr.match(value, get)
MatchOr ==
    /\ op = "init"
    /\ \E p \in OrPatterns, v \in Values :
        /\ pattern' = p
        /\ value' = v
        /\ result' = Match(p, v)
    /\ op' = "PtOr.match"
    /\ UNCHANGED <<known_cases, special_handlers, tree, pairs>>
    /\ UNCHANGED <<cache_vars, text, heap_vars, host_vars>>

\* PtFixedSequence.match(value, get)
MatchFixedSequence ==
    /\ op = "init"
    /\ \E p \in FixedSequencePatterns, v \in Values :
        /\ pattern' = p
        /\ value' = v
        /\ result' = Match(p, v)
    /\ op' = "PtFixedSequence.match"
    /\ UNCHANGED <<known_cases, special_handlers, tree, pairs>>
    /\ UNCHANGED <<cache_vars, text, heap_vars, host_vars>>

\* PtVariableSequence.match(value, get)
MatchVariableSequence ==
    /\ op = "init"
    /\ \E p \in VariableSequencePatterns, v \in Values :
        /\ pattern' = p
        /\ value' = v
        /\ result' = Match(p, v)
    /\ op' = "PtVariableSequence.match"
    /\ UNCHANGED <<known_cases, special_handlers, tree, pairs>>
    /\ UNCHANGED <<cache_vars, text, heap_vars, host_vars>>

\* PtMapping.match(value, get)
MatchMapping ==
    /\ op = "init"
    /\ \E p \in MappingPatterns, v \in Values :
        /\ pattern' = p
        /\ value' = v
        /\ result' = Match(p, v)
    /\ op' = "PtMapping.match"
    /\ UNCHANGED <<known_cases, special_handlers, tree, pairs>>
    /\ UNCHANGED <<cache_vars, text, heap_vars, host_vars>>

\* PtCaptureAs.match(value, get)
MatchCaptureAs ==
    /\ op = "init"
    /\ \E p \in CaptureAsPatterns, v \in Values :
        /\ pattern' = p
        /\ value' = v
        /\ result' = Match(p, v)
    /\ op' = "PtCaptureAs.match"
    /\ UNCHANGED <<known_cases, special_handlers, tree, pairs>>
    /\ UNCHANGED <<cache_vars, text, heap_vars, host_vars>>

\* the patterns and values of the calls whose results the host keeps
ObjectPatterns ==
    {PtCaptureAs(PtLiteral(PyInt(0)), "a"), PtCaptureAs(PtCapture("a"), "c"),
     PtLiteral(PyInt(0)), PtCapture("a"),
     PtOr(<<PtLiteral(PyInt(1)), PtCaptureAs(PtLiteral(PyInt(0)), "b")>>),
     PtFixedSequence(<<PtCapture("a"), PtLiteral(PyInt(0))>>),
     PtVariableSequence(<<PtCapture("a")>>, "rest", <<>>),
     PtMapping(<< <<PtLiteral(PyStr(<<"a">>)), PtLiteral(PyInt(0))>> >>, "rest"),
     PtClass(PtValue(<<"Point">>), <<PtLiteral(PyInt(0))>>, <<<<"y", PtCapture("a")>>>>)}
ObjectValues ==
    {PyInt(0), PyList(<<PyInt(0), PyInt(0)>>), PyDict(PyStr(<<"a">>) :> PyInt(0)),
     PyObj("Point", ("x" :> PyInt(0)) @@ ("y" :> PyInt(1)))}

\* a call of pattern.match(value, get) whose result the host keeps
MatchObject ==
    /\ Len(calls) < MaxCalls
    /\ \E p \in ObjectPatterns, v \in ObjectValues :
        LET r == Match(p, v)
            o == match_obj(p, v, Len(calls) + 1, "pattern")
        IN  /\ pattern' = p
            /\ value' = v
            /\ result' = r
            /\ calls' = Append(calls, [ret |-> o.ret, written |-> o.written,
                                       b |-> IF r.k = "bindings" THEN r.b ELSE EmptyDict])
            /\ heap' = IF o.ret # NoDict THEN (o.ret :> r.b) @@ heap ELSE heap
    /\ op' = "Pattern.match"
    /\ UNCHANGED <<known_cases, special_handlers, tree, pairs, cache_vars, text, touched, host_vars>>

\* the host writes an entry to the dict that an earlier call returned
HostWrite ==
    /\ \E i \in DOMAIN calls :
        /\ i \notin touched
        /\ calls[i].ret # NoDict
        /\ heap' = [heap EXCEPT ![calls[i].ret] = ("z" :> PyInt(0)) @@ @]
        /\ touched' = touched \cup {i}
    /\ op' = "host write"
    /\ UNCHANGED <<known_cases, special_handlers, tree, pattern, value, pairs, result,
                   cache_vars, text, calls, host_vars>>

\* what a host hands to Matcher(...): classes, and values without a __name__
PositionalObjects == {PyType("Point"), PyType("int"), PyInt(0)}
KeywordArguments ==
    {[n \in K |-> CASE n = "ZERO" -> PyInt(0)
                     [] n = "Point" -> PyInt(1)
                     [] n = "p" -> PyType("Point")] : K \in SUBSET {"ZERO", "Point", "p"}}
LookupNames == {"ZERO", "Point", "p", "int", "str", "x"}

\* Matcher(*args, **kwargs)
MatcherInit ==
    /\ op = "init"
    /\ \E args \in SeqsOf(PositionalObjects, 0, MaxSub), kwargs \in KeywordArguments :
        LET r == Matcher_init(args, kwargs)
        IN  /\ init_args' = [args |-> args, kwargs |-> kwargs]
            /\ __names__' = IF r.k = "raise" THEN EmptyDict ELSE r.v
            /\ result' = IF r.k = "raise" THEN r ELSE PyNone
    /\ op' = "Matcher"
    /\ UNCHANGED <<known_cases, special_handlers, tree, pattern, value, pairs,
                   cache_vars, text, heap_vars, lookup, frame_vars>>

\* matcher._get(name), as a pattern's calc_value calls it
MatcherGet ==
    /\ op = "Matcher"
    /\ result = PyNone
    /\ \E n \in LookupNames :
        /\ lookup' = n
        /\ result' = Matcher_get_of(__names__, n)
    /\ op' = "Matcher._get"
    /\ UNCHANGED <<known_cases, special_handlers, tree, pattern, value, pairs,
                   cache_vars, text, heap_vars, init_args, __names__, frame_vars>>

\* ---- pattern texts and host expressions
RECURSIVE Join(_, _)
Join(parts, sep) ==
    IF Len(parts) = 0 THEN <<>>
    ELSE IF Len(parts) = 1 THEN parts[1]
    ELSE parts[1] \o sep \o Join(Tail(parts), sep)

NameTexts == {<<"a">>, <<"b">>, <<"_">>, <<"_", "x">>, <<"R", "E", "D">>, <<"Z", "E", "R", "O">>}
KeywordTexts == DOMAIN Keywords
DottedTexts ==
    {<<"C", "o", "l", "o", "r", ".", "R", "E", "D">>,
     <<"C", "o", "l", "o", "r", ".", "B", "L", "U", "E">>,
     <<"M", "i", "s", "s", "i", "n", "g", ".", "R", "E", "D">>}
OrAtoms == {<<"a">>, <<"b">>, <<"0">>}
OrTexts ==
    {Join(xs, <<"|">>) : xs \in SeqsOf(OrAtoms, 2, MaxSub + 1)}
    \cup {<<"(">> \o x \o <<"|">> \o y \o <<")", "|">> \o z : x, y, z \in OrAtoms}
    \cup {x \o <<"|", "(">> \o y \o <<"|">> \o z \o <<")">> : x, y, z \in OrAtoms}
SeqItemTexts == {<<"a">>, <<"0">>, <<"*", "a">>, <<"*", "b">>}
SeqTexts == {<<"[">> \o Join(xs, <<",", " ">>) \o <<"]">> : xs \in SeqsOf(SeqItemTexts, 0, MaxSub + 1)}
OtherTexts == {<<"0">>, <<"P", "o", "i", "n", "t", "(", ")">>, <<"a", "|">>, <<"a", "$">>, <<>>}
PatternTexts ==
    NameTexts \cup KeywordTexts \cup DottedTexts \cup OrTexts \cup SeqTexts \cup OtherTexts

AstLeaves == {AstName("a"), AstName("b"), AstConstant(PyInt(0))}
AstOrs ==
    {AstBinOp(x, "BitOr", y) : x, y \in AstLeaves}
    \cup {AstBinOp(AstBinOp(x, "BitOr", y), "BitOr", z) : x, y, z \in AstLeaves}
    \cup {AstBinOp(x, "BitOr", AstBinOp(y, "BitOr", z)) : x, y, z \in AstLeaves}
AstSeqItems ==
    {AstName("a"), AstConstant(PyInt(0)), AstStarred(AstName("a")), AstStarred(AstName("b"))}
AstLists == {AstList(xs) : xs \in SeqsOf(AstSeqItems, 0, MaxSub + 1)}
AstOthers ==
    {AstTuple(<<AstStarred(AstName("a")), AstStarred(AstName("b"))>>),
     AstTuple(<<AstName("a"), AstStarred(AstName("b"))>>),
     AstList(<<AstStarred(AstConstant(PyInt(0)))>>),
     AstStarred(AstName("a")),
     AstAttribute(AstName("Color"), "RED"),
     AstAttribute(AstAttribute(AstName("Color"), "RED"), "real"),
     AstAttribute(AstConstant(PyInt(0)), "real"),
     AstNamedExpr(AstName("b"), AstBinOp(AstName("a"), "BitOr", AstConstant(PyInt(0)))),
     AstBinOp(AstBinOp(AstName("c"), "MatMult", AstBinOp(AstName("a"), "BitOr", AstName("b"))),
              "BitOr", AstConstant(PyInt(0))),
     AstBinOp(AstName("a"), "Add", AstName("b")),
     AstCall(AstName("Point"), <<AstName("a")>>, <<AstKeyword("y", AstName("b"))>>),
     AstCall(AstAttribute(AstName("m"), "Point"), <<>>, <<>>),
     AstDict(<<AstConstant(PyStr(<<"a">>)), PyNone>>, <<AstName("a"), AstName("rest")>>),
     AstDict(<<AstName("a")>>, <<AstName("a")>>)}
AstNodes == AstLeaves \cup AstOrs \cup AstLists \cup AstOthers

\* the Pattern of what a compiler returned: str2pattern returns what the
\* start callback returns, the pair of the pattern and the guard
CompiledPattern(r) ==
    IF r.k = "tuple" THEN r.items[1] ELSE IF IsPattern(r) THEN r ELSE PyNone

CompiledValues ==
    {PyInt(0), PyInt(1), PyNone, PyList(<<PyInt(0), PyInt(1)>>), PyList(<<PyInt(1)>>),
     PyObj("Point", ("x" :> PyInt(0)) @@ ("y" :> PyInt(1)))}

\* value references, as a pattern and as the key of a mapping pattern
ValueRefs ==
    {PtValue(<<"ZERO">>), PtValue(<<"KEY">>), PtValue(<<"Missing">>),
     PtValue(<<"Color", "RED">>), PtValue(<<"Missing", "RED">>)}
ValueRefPatterns ==
    ValueRefs
    \cup {PtMapping(es, NoStar) :
            es \in SeqsOf((ValueRefs \cup {PtLiteral(PyStr(<<"b">>))})
                            \X {PtCapture("a"), PtLiteral(PyInt(0))}, 1, MaxSub)}

\* the body of str2pattern on a pattern text: parse, then transform
Compile ==
    /\ op = "init"
    /\ \E s \in PatternTexts :
        /\ text' = s
        /\ tree' = parse(s)
        /\ result' = str2pattern_body(s)
        /\ pattern' = CompiledPattern(result')
    /\ op' = "str2pattern"
    /\ UNCHANGED <<known_cases, special_handlers, value, pairs, cache_vars, heap_vars, host_vars>>

\* ast2pattern(a) on a host expression
Visit ==
    /\ op = "init"
    /\ \E a \in AstNodes :
        /\ tree' = a
        /\ result' = ast2pattern(a)
        /\ pattern' = CompiledPattern(result')
    /\ op' = "ast2pattern"
    /\ UNCHANGED <<known_cases, special_handlers, value, pairs, cache_vars, text, heap_vars, host_vars>>

\* pattern.match(value, get) of a compiled pattern
MatchCompiled ==
    /\ op \in {"str2pattern", "ast2pattern"}
    /\ pattern # PyNone
    /\ \E v \in CompiledValues :
        /\ value' = v
        /\ result' = Match(pattern, v)
    /\ op' = "Pattern.match"
    /\ UNCHANGED <<known_cases, special_handlers, tree, pattern, pairs, cache_vars, text, heap_vars, host_vars>>

\* PtValue.match and PtMapping.match with value references
MatchValue ==
    /\ op = "init"
    /\ \E p \in ValueRefPatterns, v \in Values :
        /\ pattern' = p
        /\ value' = v
        /\ result' = Match(p, v)
    /\ op' = "Pattern.match"
    /\ UNCHANGED <<known_cases, special_handlers, tree, pairs, cache_vars, text, heap_vars, host_vars>>

\* the decimal numeral of n, a NUMBER of the grammar
DigitChar == <<"0", "1", "2", "3", "4", "5", "6", "7", "8", "9">>
RECURSIVE Numeral(_)
Numeral(n) ==
    IF n < 10 THEN <<DigitChar[n + 1]>>
    ELSE Numeral(n \div 10) \o <<DigitChar[(n % 10) + 1]>>

\* the texts a program that compiles one literal after the other hands to
\* str2pattern: the next new one, or the first one again
CallTexts ==
    {Numeral(1)} \cup
        (IF Cardinality(DOMAIN parsed) < MaxTexts
         THEN {Numeral(Cardinality(DOMAIN parsed) + 1)} ELSE {})

\* str2pattern(s), a call that no other call overlaps
str2pattern ==
    /\ \E s \in CallTexts :
        IF s \in CacheKeys(cache)
        THEN /\ cache' = lru_hit(cache, s)
             /\ result' = cache[lru_index(cache, s)].value
             /\ parsed' = parsed
        ELSE LET made == str2pattern_body(s)
             IN  /\ parsed' = (s :> Count(s) + 1) @@ parsed
                 /\ result' = made
                 /\ cache' = IF made.k = "raise" THEN cache
                             ELSE lru_store(cache, CacheEntry(s, made, Count(s) + 1))
    /\ op' = "str2pattern (cached)"
    /\ UNCHANGED <<known_cases, special_handlers, tree, pattern, value, pairs, threads, text, heap_vars, host_vars>>

\* the texts the threads compile
ThreadTexts == {<<"a">>, <<"a", "|", "0">>}

\* a thread calls str2pattern(s): the cache is looked up; a hit returns
str2pattern_call ==
    /\ \E t \in DOMAIN threads, s \in ThreadTexts :
        /\ threads[t].pc = "idle"
        /\ IF s \in CacheKeys(cache)
           THEN /\ cache' = lru_hit(cache, s)
                /\ threads' = [threads EXCEPT ![t] =
                        [pc |-> "idle", s |-> s, made |-> PyNone,
                         ret |-> cache[lru_index(cache, s)]]]
           ELSE /\ cache' = cache
                /\ threads' = [threads EXCEPT ![t] =
                        [pc |-> "body", s |-> s, made |-> PyNone, ret |-> PyNone]]
    /\ UNCHANGED <<parsed, match_vars, text, heap_vars, host_vars>>

\* after a miss the thread runs the body of str2pattern; other threads run
\* meanwhile
str2pattern_run ==
    /\ \E t \in DOMAIN threads :
        /\ threads[t].pc = "body"
        /\ parsed' = (threads[t].s :> Count(threads[t].s) + 1) @@ parsed
        /\ threads' = [threads EXCEPT ![t].pc = "store",
                ![t].made = CacheEntry(threads[t].s, str2pattern_body(threads[t].s),
                                       Count(threads[t].s) + 1)]
    /\ UNCHANGED <<cache, match_vars, text, heap_vars, host_vars>>

\* the body returned: the result is stored and returned
str2pattern_store ==
    /\ \E t \in DOMAIN threads :
        /\ threads[t].pc = "store"
        /\ cache' = lru_store(cache, threads[t].made)
        /\ threads' = [threads EXCEPT ![t].pc = "idle", ![t].ret = threads[t].made,
                                      ![t].made = PyNone]
    /\ UNCHANGED <<parsed, match_vars, text, heap_vars, host_vars>>

\* matching with the registry as the module leaves it on import
Next ==
    \/ Transform
    \/ MatchClass
    \/ MatchBuiltin
    \/ MatchOr
    \/ MatchFixedSequence
    \/ MatchVariableSequence
    \/ MatchMapping
    \/ MatchCaptureAs

Spec == Init /\ [][Next]_vars

\* class patterns under every registry the host can set up
RegistryNext ==
    \/ register
    \/ register_special
    \/ Transform
    \/ MatchClass
    \/ MatchBuiltin

RegistrySpec == Init /\ [][RegistryNext]_vars

\* a Matcher is constructed and asked for names
(***************************************************************************)
(* withhacks: the trace functions.  A frame's local trace function is      *)
(* called by the interpreter for an event on the frame while system-wide   *)
(* tracing is on; what it returns becomes the frame's f_trace, and when it *)
(* raises the interpreter switches tracing off, as sys.settrace(None)      *)
(* does, and clears the frame's f_trace.                                   *)
(***************************************************************************)
Events == {"line", "opcode"}
Lines == 1..MaxLine
Function(n) == [k |-> "function", name |-> n]
_dummy_sys_trace == Function("_dummy_sys_trace")
TracerOf(f) == [k |-> "_FrameTracer", frame |-> f]
_missing_marker == [k |-> "object", name |-> "_missing_marker"]
\* the local variables of the function frame, f_code.co_varnames
co_varnames == {"x"}

\* the functions handed to inject_trace_func
\* lambda frame: frame.f_locals.update(locals)
UpdateLocals(b) == [k |-> "update", locals |-> b]
\* set_vars of _set_context_locals
SetVars(b, sl) == [k |-> "set_vars", locals |-> b, store_local |-> sl]
\* callback of _set_lineno
LinenoCallback(i) == [k |-> "callback", lineno |-> i]
\* _exit_context, which raises _ExitContext
ExitContextFunction == [k |-> "_exit_context"]
\* a function of the host that returns
HostFunction(n) == [k |-> "host", name |-> n]

Restrict(d, S) == [n \in DOMAIN d \cap S |-> d[n]]

\* f(frame) for an injected function: env has the frame's locals, its
\* globals, its line and the exception raised so far
call_injected(fn, f, env) ==
    CASE fn.k = "update" ->
            IF f = ModuleFrame THEN [env EXCEPT !.globals = fn.locals @@ @]
            ELSE [env EXCEPT !.locals = fn.locals @@ @]
      [] fn.k = "set_vars" ->
            [env EXCEPT !.locals = Restrict(fn.locals, fn.store_local) @@ @,
                        !.globals = Restrict(fn.locals, DOMAIN fn.locals \ fn.store_local) @@ @]
      [] fn.k = "callback" -> [env EXCEPT !.lineno = fn.lineno]
      [] fn.k = "_exit_context" -> [env EXCEPT !.exc = "_ExitContext"]
      [] OTHER -> env

\* the loop of _FrameTracer.__call__: every function of the event is
\* called, an exception is kept and the loop goes on
RECURSIVE run_injected_loop(_, _, _, _)
run_injected_loop(fns, i, f, env) ==
    IF i > Len(fns) THEN env
    ELSE run_injected_loop(fns, i + 1, f,
                           [call_injected(fns[i].fn, f, env) EXCEPT !.ran = Append(@, fns[i])])

Raising(fns) == {i \in DOMAIN fns : fns[i].fn.k = "_exit_context"}
\* a loop that ends at the first function that raises
run_injected_stop(fns, f, env) ==
    IF Raising(fns) = {} THEN run_injected_loop(fns, 1, f, env)
    ELSE run_injected_loop(SubSeq(fns, 1, CHOOSE i \in Raising(fns) : \A j \in Raising(fns) : i <= j),
                           1, f, env)
run_injected(fns, f, env) == run_injected_loop(fns, 1, f, env)

\* what a trace function of the host may return: itself, None, another one
OrigReturns(fn) == IF fn = PyNone THEN {PyNone} ELSE {fn, PyNone, Function("other")}

\* _FrameTracer.__call__(frame, event, arg) with the frame on line ln, where
\* r is what the original trace function returned (None if there is none)
FrameTracer_call(f, event, ln, r) ==
    LET tr == _frame_tracer[f]
        fns == IF event \in DOMAIN tr.injected_functions
               THEN tr.injected_functions[event] ELSE <<>>
        env == run_injected(fns, f, [locals |-> f_locals, globals |-> f_globals,
                                      lineno |-> ln, exc |-> "", ran |-> <<>>])
        left == DOMAIN tr.injected_functions \ {event}
        raised == env.exc # ""
    IN  /\ fired' = [fired EXCEPT ![f] = @ \cup {event}]
        /\ last_call' = [frame |-> f, event |-> event, lineno |-> ln, returned |-> r]
        /\ IF event = "line" /\ ln = tr.start_line
           THEN /\ _frame_tracer' = [_frame_tracer EXCEPT ![f].orig_function = r]
                /\ f_lineno' = [f_lineno EXCEPT ![f] = ln]
                /\ result' = TracerOf(f)
                /\ UNCHANGED <<f_trace, f_trace_opcodes, sys_trace, trace_counter, ran,
                               not_run, f_locals, f_globals>>
           ELSE /\ f_lineno' = [f_lineno EXCEPT ![f] = env.lineno]
                /\ f_locals' = env.locals
                /\ f_globals' = env.globals
                /\ ran' = [ran EXCEPT ![f] = @ \o env.ran]
                /\ not_run' = [not_run EXCEPT ![f] = @ \ {env.ran[i] : i \in DOMAIN env.ran}]
                /\ f_trace_opcodes' = IF event = "opcode"
                                      THEN [f_trace_opcodes EXCEPT ![f] = tr.orig_trace_opcodes]
                                      ELSE f_trace_opcodes
                /\ _frame_tracer' =
                      IF left = {} THEN [g \in DOMAIN _frame_tracer \ {f} |-> _frame_tracer[g]]
                      ELSE [_frame_tracer EXCEPT ![f] =
                               [tr EXCEPT !.orig_function = r,
                                          !.injected_functions = Restrict(@, left)]]
                /\ trace_counter' = IF left = {} THEN trace_counter - 1 ELSE trace_counter
                /\ sys_trace' = IF raised THEN PyNone
                                ELSE IF left = {} /\ trace_counter - 1 = 0 /\ _orig_sys_trace = PyNone
                                     THEN PyNone
                                ELSE sys_trace
                /\ f_trace' = [f_trace EXCEPT ![f] = IF raised THEN PyNone
                                                     ELSE IF left = {} THEN r
                                                     ELSE TracerOf(f)]
                /\ result' = IF raised THEN Raise(env.exc, "")
                             ELSE IF left = {} THEN r ELSE TracerOf(f)
        /\ UNCHANGED <<_orig_sys_trace, registered, orig_trace>>

\* inject_trace_func(frame, func, event), register_function included; the
\* function object is told from others by the number of its injection
inject_trace_func(f, func, event) ==
    LET new == f \notin DOMAIN _frame_tracer
        tr == IF new THEN [orig_function |-> f_trace[f], start_line |-> f_lineno[f],
                           injected_functions |-> EmptyDict, orig_trace_opcodes |-> FALSE]
              ELSE _frame_tracer[f]
        fns == IF event \in DOMAIN tr.injected_functions
               THEN tr.injected_functions[event] ELSE <<>>
        first_opcode == event = "opcode" /\ fns = <<>>
        entry == [fn |-> func, id |-> injections + 1]
    IN  /\ _orig_sys_trace' = IF new /\ DOMAIN _frame_tracer = {} THEN sys_trace
                              ELSE _orig_sys_trace
        /\ sys_trace' = IF new /\ DOMAIN _frame_tracer = {} /\ sys_trace = PyNone
                        THEN _dummy_sys_trace ELSE sys_trace
        /\ _frame_tracer' =
              (f :> [tr EXCEPT !.injected_functions = (event :> Append(fns, entry)) @@ @,
                               !.orig_trace_opcodes = IF first_opcode THEN f_trace_opcodes[f] ELSE @])
                  @@ _frame_tracer
        /\ f_trace' = IF new THEN [f_trace EXCEPT ![f] = TracerOf(f)] ELSE f_trace
        /\ trace_counter' = IF new THEN trace_counter + 1 ELSE trace_counter
        /\ f_trace_opcodes' = IF first_opcode THEN [f_trace_opcodes EXCEPT ![f] = TRUE]
                              ELSE f_trace_opcodes
        /\ registered' = [registered EXCEPT ![f] = IF new THEN {event} ELSE @ \cup {event}]
        /\ fired' = [fired EXCEPT ![f] = IF new THEN {} ELSE @ \ {event}]
        /\ not_run' = [not_run EXCEPT ![f] = IF new THEN {entry} ELSE @ \cup {entry}]
        /\ orig_trace' = IF new THEN [orig_trace EXCEPT ![f] = f_trace[f]] ELSE orig_trace
        /\ ran' = IF new THEN [ran EXCEPT ![f] = <<>>] ELSE ran

(***************************************************************************)
(* pattern_engine: the order of evaluation.  Trace(p, v) is what           *)
(* p.match(v, get) does, in the order of the code: the calls of match, the *)
(* calls of get, the isinstance test of a class pattern, the lookup of the *)
(* match args and the attributes read from the value.                      *)
(***************************************************************************)
MatchEvent(p) == [e |-> "match", pattern |-> p]
GetEvent(n) == [e |-> "get", name |-> n]
IsInstanceEvent(t) == [e |-> "isinstance", name |-> t.name]
MatchArgsEvent(t) == [e |-> "__match_args__", name |-> t.name]
GetAttrEvent(n) == [e |-> "getattr", name |-> n]

RECURSIVE Concat(_)
Concat(ss) == IF Len(ss) = 0 THEN <<>> ELSE Head(ss) \o Concat(Tail(ss))

RECURSIVE Trace(_, _)

\* calc_value(get): a PtValue resolves its first name
calc_value_trace(p) == IF p.k = "PtValue" THEN <<GetEvent(p.attributes[1])>> ELSE <<>>

RECURSIVE PtOr_trace(_, _, _)
PtOr_trace(p, v, i) ==
    IF i > Len(p.options) THEN <<>>
    ELSE Trace(p.options[i], v)
            \o (IF Match(p.options[i], v) # PyNone THEN <<>> ELSE PtOr_trace(p, v, i + 1))
\* a loop that tries every option
PtOr_events_all(p, v) == Concat([i \in DOMAIN p.options |-> Trace(p.options[i], v)])
PtOr_events(p, v) == PtOr_trace(p, v, 1)

\* match_args_and_kwargs: the lookup of the match args unless there is no
\* sub-pattern, then the arity and duplicate checks, then getattr for each
\* name up to the first that is missing
IsAttributeName(n) == n \notin special_attributes
\* the calls of __match_args__ and getattr, had the lookup come first
match_args_trace_lookup_first(t, val, args, kwargs) ==
    <<MatchArgsEvent(t)>>
\* the calls of __match_args__ and getattr that match_args_and_kwargs makes
match_args_trace(t, val, args, kwargs) ==
    IF Len(args) = 0 /\ Len(kwargs) = 0 THEN <<>>
    ELSE
    LET ma == __match_args__(t)
        kwnames == {kwargs[i][1] : i \in DOMAIN kwargs}
        taken(i) == kwnames \cup {ma[j] : j \in 1..(i - 1)}
        names == [i \in 1..Len(args) |-> ma[i]] \o [i \in DOMAIN kwargs |-> kwargs[i][1]]
        missing == {i \in DOMAIN names : IsAttributeName(names[i]) /\ ~HasAttr(val, names[i])}
        last == IF missing = {} THEN Len(names)
                ELSE CHOOSE i \in missing : \A j \in missing : i <= j
    IN  <<MatchArgsEvent(t)>>
            \o (IF Len(ma) < Len(args) \/ \E i \in 1..Len(args) : ma[i] \in taken(i) THEN <<>>
                ELSE [i \in 1..Len(SelectSeq(SubSeq(names, 1, last), IsAttributeName)) |->
                         GetAttrEvent(SelectSeq(SubSeq(names, 1, last), IsAttributeName)[i])])

\* the loop of PtClass.match over the pairs
RECURSIVE pairs_trace(_, _)
pairs_trace(ps, i) ==
    IF i > Len(ps) THEN <<>>
    ELSE Trace(ps[i][1], ps[i][2])
            \o (IF Match(ps[i][1], ps[i][2]).k = "bindings" THEN pairs_trace(ps, i + 1) ELSE <<>>)

PtClass_sub_events(p, v) ==
    IF PtClass_pairs(p, v).k = "pairs" THEN pairs_trace(PtClass_pairs(p, v).pairs, 1) ELSE <<>>

\* a class pattern that resolves the fields before the isinstance test
PtClass_events_fields_first(p, v, t) ==
    IF t.k = "raise" \/ ~IsType(t.v) THEN <<>>
    ELSE match_args_trace(t.v, v, p.args, p.kwargs) \o <<IsInstanceEvent(t.v)>>
            \o (IF ~IsInstance(v, t.v) THEN <<>> ELSE PtClass_sub_events(p, v))
\* PtClass.match after cls.calc_value(get) gave t
PtClass_events(p, v, t) ==
    IF t.k = "raise" \/ ~IsType(t.v) THEN <<>>
    ELSE <<IsInstanceEvent(t.v)>>
            \o (IF ~IsInstance(v, t.v) THEN <<>>
                ELSE match_args_trace(t.v, v, p.args, p.kwargs) \o PtClass_sub_events(p, v))

\* _match_all
RECURSIVE match_all_trace(_, _, _)
match_all_trace(pts, elems, i) ==
    IF i > Len(pts) THEN <<>>
    ELSE LET x == IF i <= Len(elems) THEN elems[i] ELSE PyNone
         IN  Trace(pts[i], x)
                \o (IF Match(pts[i], x).k = "bindings" THEN match_all_trace(pts, elems, i + 1)
                    ELSE <<>>)

\* the loop of PtMapping.match over its entries
RECURSIVE PtMapping_trace(_, _, _)
PtMapping_trace(p, v, i) ==
    IF i > Len(p.elements) THEN <<>>
    ELSE LET kp == p.elements[i][1]
             vp == p.elements[i][2]
             key == calc_value(kp)
         IN  calc_value_trace(kp)
                \o (IF key.k = "raise" \/ ~(\E x \in DOMAIN v.d : PyEq(x, key.v)) THEN <<>>
                    ELSE LET val == v.d[CHOOSE x \in DOMAIN v.d : PyEq(x, key.v)]
                         IN  Trace(vp, val)
                                \o (IF Match(vp, val).k = "bindings"
                                    THEN PtMapping_trace(p, v, i + 1) ELSE <<>>))

\* PtVariableSequence.match: pre, and post if pre matched
PtVariableSequence_trace(p, v) ==
    IF ~IsSequence(v) \/ PyLen(v) < Len(p.pre) + Len(p.post) THEN <<>>
    ELSE match_all_trace(p.pre, Elems(PySlice(v, 0, Len(p.pre))), 1)
            \o (IF _match_all(p.pre, PySlice(v, 0, Len(p.pre))).k = "bindings"
                THEN match_all_trace(p.post,
                                     Elems(PySlice(v, PyLen(v) - Len(p.post), PyLen(v))), 1)
                ELSE <<>>)

Trace(p, v) ==
    <<MatchEvent(p)>> \o
    CASE p.k = "PtCaptureAs" -> Trace(p.base, v)
      [] p.k = "PtOr" -> PtOr_events(p, v)
      [] p.k = "PtValue" -> calc_value_trace(p)
      [] p.k = "PtClass" ->
            calc_value_trace(p.cls) \o PtClass_events(p, v, PtValue_calc_value(p.cls))
      [] p.k = "PtFixedSequence" ->
            IF IsSequence(v) /\ PyLen(v) = Len(p.elements)
            THEN match_all_trace(p.elements, Elems(v), 1) ELSE <<>>
      [] p.k = "PtVariableSequence" -> PtVariableSequence_trace(p, v)
      [] p.k = "PtMapping" -> IF IsMapping(v) THEN PtMapping_trace(p, v, 1) ELSE <<>>
      [] OTHER -> <<>>

\* ---- withhacks: the tracer
\* the functions a host injects: one that returns and _exit_context, which
\* raises
InjectedFunctions == {HostFunction("ok"), ExitContextFunction}

\* the host runs under a tracer of its own (a debugger, coverage): the
\* system trace function is set and the frames have a local trace function
HostSetTrace ==
    /\ op = "init"
    /\ sys_trace' = Function("glob")
    /\ f_trace' = [f \in Frames |-> Function("tracer")]
    /\ op' = "sys.settrace"
    /\ result' = PyNone
    /\ UNCHANGED <<engine_vars, hack_vars, f_lineno, f_trace_opcodes, _orig_sys_trace,
                   _frame_tracer, trace_counter, registered, fired, orig_trace, ran,
                   not_run, last_call>>

\* inject_trace_func(frame, func, event)
Inject ==
    /\ op \in {"init", "sys.settrace", "inject_trace_func", "_FrameTracer.__call__"}
    /\ injections < MaxInject
    /\ \E f \in Frames, func \in InjectedFunctions, event \in Events :
          inject_trace_func(f, func, event)
    /\ injections' = injections + 1
    /\ op' = "inject_trace_func"
    /\ result' = PyNone
    /\ UNCHANGED <<engine_vars, f_lineno, __frame__, __to_reset__, f_locals, f_globals,
                   before, last_call>>

\* the interpreter calls the tracer of a frame for an event: a line event
\* when the frame reaches a line (or, leaving __enter__, on the line it is
\* on), an opcode event for an instruction while f_trace_opcodes is set
TraceEvent ==
    /\ sys_trace # PyNone
    /\ \E f \in DOMAIN _frame_tracer, event \in Events, ln \in Lines :
        /\ f_trace[f] = TracerOf(f)
        /\ event = "opcode" => (f_trace_opcodes[f] /\ ln = f_lineno[f])
        /\ \E r \in OrigReturns(_frame_tracer[f].orig_function) :
              FrameTracer_call(f, event, ln, r)
    /\ op' = "_FrameTracer.__call__"
    /\ UNCHANGED <<engine_vars, __frame__, __to_reset__, before, injections>>

TraceNext ==
    \/ HostSetTrace
    \/ Inject
    \/ TraceEvent

TraceSpec == Init /\ [][TraceNext]_vars

\* ---- withhacks: WithHack
\* the dicts a with-object injects: G is a global of the module, H is not,
\* x is a local variable of the function
InjectedLocals ==
    {"G" :> PyInt(1), "G" :> PyInt(2), "H" :> PyInt(1), "x" :> PyInt(1),
     ("G" :> PyInt(1)) @@ ("H" :> PyInt(1))}
InjectedNames == UNION {DOMAIN d : d \in InjectedLocals}

\* what _set_context_locals raises before it injects anything, or None: it
\* reads self.__frame__, the frame's f_locals and self.__to_reset__
set_context_locals_error ==
    IF __frame__ = NoAttribute THEN Raise("AttributeError", "__frame__")
    ELSE IF __frame__ = PyNone THEN Raise("AttributeError", "f_locals")
    ELSE IF __frame__.id # ModuleFrame /\ __to_reset__ = NoAttribute
         THEN Raise("AttributeError", "__to_reset__")
    ELSE PyNone

\* WithHack._set_context_locals(locals) when it raises nothing
_set_context_locals(locals) ==
    LET f == __frame__.id
        store_local == DOMAIN locals \cap co_varnames
        store_global == DOMAIN locals \ store_local
    IN  IF f = ModuleFrame
        THEN /\ inject_trace_func(f, UpdateLocals(locals), "opcode")
             /\ UNCHANGED __to_reset__
        ELSE /\ __to_reset__' =
                    Bindings([n \in store_global |->
                                 IF n \in DOMAIN f_globals THEN f_globals[n] ELSE _missing_marker]
                             @@ __to_reset__.b)
             /\ inject_trace_func(f, SetVars(locals, store_local), "opcode")

\* the loop of WithHack.__exit__ over __to_reset__: the globals after it
reset_globals(gs, tr) ==
    [n \in DOMAIN gs \ {m \in DOMAIN tr : tr[m] = _missing_marker} |->
        IF n \in DOMAIN tr THEN tr[n] ELSE gs[n]]

\* `with WithHack() as w:` in a frame: __init__ and __enter__
HackEnter ==
    /\ op = "init"
    /\ \E f \in Frames :
        /\ __frame__' = FrameRef(f)
        /\ before' = [frame |-> f, globals |-> f_globals]
    /\ __to_reset__' = Bindings(EmptyDict)
    /\ op' = "WithHack.__enter__"
    /\ result' = PyNone
    /\ UNCHANGED <<engine_vars, trace_vars, f_locals, f_globals, injections>>

\* w._set_context_locals(locals) in the block
HackSetLocals ==
    /\ op \in {"WithHack.__enter__", "WithHack._set_context_locals", "_FrameTracer.__call__"}
    /\ set_context_locals_error = PyNone
    /\ injections < MaxInject
    /\ \E locals \in InjectedLocals : _set_context_locals(locals)
    /\ injections' = injections + 1
    /\ op' = "WithHack._set_context_locals"
    /\ result' = PyNone
    /\ UNCHANGED <<engine_vars, f_lineno, last_call, __frame__, f_locals, f_globals, before>>

\* the block ends: WithHack.__exit__(None, None, None), reached when the
\* frame has run the instructions after the last injection
HackExit ==
    /\ __frame__.k = "frame"
    /\ __frame__.id \notin DOMAIN _frame_tracer
    /\ f_globals' = reset_globals(f_globals, __to_reset__.b)
    /\ __to_reset__' = Bindings(EmptyDict)
    /\ __frame__' = PyNone
    /\ op' = "WithHack.__exit__"
    /\ result' = PyBool(FALSE)
    /\ UNCHANGED <<engine_vars, trace_vars, f_locals, before, injections>>

WithHackNext ==
    \/ HackEnter
    \/ HackSetLocals
    \/ TraceEvent
    \/ HackExit

WithHackSpec == Init /\ [][WithHackNext]_vars

\* ---- __init__: the _Match object of Matcher(...)(value)
\* _Match.case(pattern) on an object with the value val and the stored
\* bindings vs: what it returns or raises, and the bindings stored after.
\* pt is what str2pattern returned; pt.match is an attribute lookup on it
_Match_store(var, vs) ==
    IF var.k = "raise" THEN [ret |-> var, vars |-> vs]
    ELSE IF var # PyNone THEN [ret |-> PyBool(TRUE), vars |-> var]
    ELSE [ret |-> PyBool(FALSE), vars |-> vs]
_Match_case_of(pt, val, vs) ==
    IF pt.k = "raise" THEN [ret |-> pt, vars |-> vs]
    ELSE IF ~IsPattern(pt) THEN [ret |-> Raise("AttributeError", "match"), vars |-> vs]
    ELSE _Match_store(Match(pt, val), vs)
_Match_case(val, vs, s) == _Match_case_of(str2pattern_body(s), val, vs)

\* the texts a host hands to case
CaseTexts ==
    {<<"a">>, <<"0">>, <<"1">>, <<"_">>, <<"[", "a", ",", "b", "]">>,
     <<"[", "a", "]">>, <<"0", "|", "1">>, <<"a", "|">>, <<"b">>, <<"[", "]">>}

\* Matcher(...)(value): _Match.__init__
MatcherCall ==
    /\ op = "init"
    /\ \E v \in CompiledValues :
        /\ __value__' = v
        /\ __vars__' = PyNone
    /\ op' = "Matcher.__call__"
    /\ result' = PyNone
    /\ UNCHANGED <<known_cases, special_handlers, tree, pattern, value, pairs,
                   cache_vars, text, heap_vars, init_args, __names__, lookup, case_log,
                   trace_vars, hack_vars, magic_vars>>

\* m.case(text)
MatchCase ==
    /\ op \in {"Matcher.__call__", "_Match.case"}
    /\ Len(case_log) < MaxCalls
    /\ \E s \in CaseTexts :
        \E r \in {_Match_case(__value__, __vars__, s)} :
            /\ result' = r.ret
            /\ __vars__' = r.vars
            /\ case_log' = Append(case_log, [text |-> s, vars |-> __vars__, value |-> __value__])
    /\ op' = "_Match.case"
    /\ UNCHANGED <<known_cases, special_handlers, tree, pattern, value, pairs,
                   cache_vars, text, heap_vars, init_args, __names__, lookup, __value__,
                   trace_vars, hack_vars, magic_vars>>

NoMagicNext ==
    \/ MatcherCall
    \/ MatchCase

NoMagicSpec == Init /\ [][NoMagicNext]_vars

\* ---- injecting: match and the module-level case
\* the with-object of `with match(v):`
InjectingMatch(v) == [k |-> "injecting.match", value |-> v]

\* `with match(v):` in a frame: match.__init__ sets value and nothing else
\* (WithHack.__init__ is not called), and match.__enter__ first calls
\* _set_context_locals, then reads _get_context_frame, which neither match
\* nor WithHack defines
InjectingEnter ==
    /\ op \in {"init", "case"}
    /\ __frame__ = NoAttribute
    /\ \E v \in CompiledValues :
        /\ value' = v
        /\ IF set_context_locals_error # PyNone
           THEN /\ result' = set_context_locals_error
                /\ UNCHANGED <<trace_vars, __to_reset__, injections>>
           ELSE /\ _set_context_locals("__match_obj__" :> InjectingMatch(v))
                /\ injections' = injections + 1
                /\ result' = Raise("AttributeError", "_get_context_frame")
                /\ UNCHANGED <<f_lineno, last_call>>
    /\ op' = "with match"
    /\ UNCHANGED <<known_cases, special_handlers, tree, pattern, pairs, cache_vars, text,
                   heap_vars, init_args, __names__, lookup, _Match_vars, magic_vars,
                   __frame__, f_locals, f_globals, before>>

\* what case raises outside a block (the message, without its backquotes)
OutsideWithMatch == Raise("ValueError", "case() is only valid inside with match")

\* f.f_locals.get('__match_obj__') for the calling frame f
CallerMatchObject(f) ==
    LET ls == IF f = ModuleFrame THEN f_globals ELSE f_locals
    IN  IF "__match_obj__" \in DOMAIN ls THEN ls["__match_obj__"] ELSE PyNone

\* case(text) called in a frame
InjectingCase ==
    /\ op \in {"init", "with match", "case"}
    /\ \E f \in Frames, s \in CaseTexts :
        /\ text' = s
        /\ \E m \in {CallerMatchObject(f)} :
              result' = IF m = PyNone
                        THEN OutsideWithMatch
                        ELSE _Match_case(m.value, PyNone, s).ret
    /\ op' = "case"
    /\ UNCHANGED <<known_cases, special_handlers, tree, pattern, value, pairs, cache_vars,
                   heap_vars, init_args, __names__, lookup, _Match_vars, trace_vars, hack_vars,
                   magic_vars>>

InjectingNext ==
    \/ InjectingEnter
    \/ InjectingCase

InjectingSpec == Init /\ [][InjectingNext]_vars

\* ---- full_magic: the _Matcher of a with statement
AstBoolOp(o, values) == [k |-> "BoolOp", op |-> o, values |-> values]
AstCompare(left, o, right) == [k |-> "Compare", left |-> left, op |-> o, right |-> right]
\* an if statement of the chain: its test and the line of its body
AstIf(test, lineno) == [k |-> "If", test |-> test, lineno |-> lineno]
\* the with statement: the if chain of its body and the line of the chain's
\* else body, None without one
AstWith(body, orelse) == [k |-> "With", body |-> body, orelse |-> orelse]

\* exe(vars, a) of match.__enter__: eval of the guard in the globals and
\* the bindings; the guards assign nothing
exe(vs, a) ==
    CASE a.k = "Constant" -> a.value
      [] a.k = "Compare" ->
            IF a.left.id \in DOMAIN vs THEN PyBool(PyEq(vs[a.left.id], a.right.value))
            ELSE Raise("NameError", a.left.id)
Truthy(r) == r.k = "bool" /\ r.n # 0

\* the loop of _parse_match_stmt over the if chain
RECURSIVE parse_cases(_, _)
parse_cases(b, i) ==
    IF i > Len(b) THEN <<>>
    ELSE LET a == b[i].test
         IN  <<IF a.k = "BoolOp"
               THEN <<ast2pattern(a.values[1]), PyInt(b[i].lineno), a.values[2]>>
               ELSE <<ast2pattern(a), PyInt(b[i].lineno), PyNone>>
             >> \o parse_cases(b, i + 1)
_parse_match_stmt(w) == [cases |-> parse_cases(w.body, 1), otherwise |-> w.orelse]

\* _Matcher.match(val, get, exe): what it returns or raises, and the cases
\* whose guard exe was called for, in order
RECURSIVE Matcher_match_loop(_, _, _, _)
Matcher_match_guard(m, i, val, log, res, r) ==
    IF r.k = "raise" THEN [ret |-> r, log |-> log]
    ELSE IF Truthy(r) THEN [ret |-> PyTuple(<<m.cases[i][2], res>>), log |-> log]
    ELSE Matcher_match_loop(m, i + 1, val, log)
Matcher_match_case(m, i, val, log, res) ==
    IF res.k = "raise" THEN [ret |-> res, log |-> log]
    ELSE IF res # PyNone
         THEN IF m.cases[i][3] = PyNone
              THEN [ret |-> PyTuple(<<m.cases[i][2], res>>), log |-> log]
              ELSE Matcher_match_guard(m, i, val, Append(log, i), res,
                                       exe(res.b, m.cases[i][3]))
    ELSE Matcher_match_loop(m, i + 1, val, log)
Matcher_match_loop(m, i, val, log) ==
    IF i > Len(m.cases) THEN [ret |-> PyTuple(<<m.otherwise, Bindings(EmptyDict)>>), log |-> log]
    ELSE Matcher_match_case(m, i, val, log, Match(m.cases[i][1], val))

\* a match in which the first case whose pattern matches is the last tried
Matcher_match_veto_ends(m, val) ==
    LET matching == {i \in DOMAIN m.cases : Match(m.cases[i][1], val).k = "bindings"}
    IN  IF matching = {} THEN Matcher_match_loop(m, 1, val, <<>>)
        ELSE Matcher_match_loop(
                 [m EXCEPT !.cases = SubSeq(@, 1, CHOOSE i \in matching : \A j \in matching : i <= j)],
                 1, val, <<>>)
Matcher_match(m, val) == Matcher_match_loop(m, 1, val, <<>>)

\* the tests of the if chain: a pattern, or `pattern and guard`
GuardPatterns ==
    {AstName("a"), AstConstant(PyInt(0)), AstList(<<AstName("a"), AstName("b")>>)}
Guards ==
    {AstConstant(PyBool(TRUE)), AstConstant(PyBool(FALSE)),
     AstCompare(AstName("a"), "Eq", AstConstant(PyInt(0)))}
Tests == GuardPatterns \cup {AstBoolOp("And", <<p, g>>) : p \in GuardPatterns, g \in Guards}
\* the with statement on line 1, the test of branch i on line 2 * i and
\* its body on the next line
WithStatements ==
    {AstWith([i \in DOMAIN ts |-> AstIf(ts[i], 2 * i + 1)], e) :
        ts \in SeqsOf(Tests, 0, MaxCases), e \in {PyNone, PyInt(2 * MaxCases + 3)}}

\* _parse_match_stmt(code, with_start_line) for the with statement reached
ParseMatchStmt ==
    /\ op = "init"
    /\ \E w \in WithStatements : matcher' = _parse_match_stmt(w)
    /\ op' = "_parse_match_stmt"
    /\ result' = PyNone
    /\ UNCHANGED <<known_cases, special_handlers, tree, pattern, value, pairs, cache_vars,
                   text, heap_vars, init_args, __names__, lookup, _Match_vars, trace_vars,
                   hack_vars, exe_log, events>>

\* m.match(self.value, self._get_local, exe)
MatcherMatch ==
    /\ op = "_parse_match_stmt"
    /\ \E v \in CompiledValues :
        /\ value' = v
        /\ \E r \in {Matcher_match(matcher, v)} :
            /\ result' = r.ret
            /\ exe_log' = r.log
    /\ op' = "_Matcher.match"
    /\ UNCHANGED <<known_cases, special_handlers, tree, pattern, pairs, cache_vars,
                   text, heap_vars, init_args, __names__, lookup, _Match_vars, trace_vars,
                   hack_vars, matcher, events>>

FullMagicNext ==
    \/ ParseMatchStmt
    \/ MatcherMatch

FullMagicSpec == Init /\ [][FullMagicNext]_vars

\* ---- pattern_engine: traced matches
\* class patterns whose sub-patterns succeed, fail or raise
OrderSubPatterns == {PtCapture("a"), PtLiteral(PyInt(0)), PtValue(<<"Missing", "RED">>)}
OrderKeywords ==
    {<<"x", PtLiteral(PyInt(0))>>, <<"y", PtCapture("b")>>, <<"z", PtValue(<<"Missing", "RED">>)>>}
OrderClassPatterns ==
    {PtClass(PtValue(<<c>>), args, kwargs) :
        c \in {"Point", "Opaque", "int", "Missing"},
        args \in SeqsOf(OrderSubPatterns, 0, MaxSub),
        kwargs \in SeqsOf(OrderKeywords, 0, MaxSub)}

\* PtOr.match(value, get) with a get that is watched
TraceOr ==
    /\ op = "init"
    /\ \E p \in OrPatterns, v \in Values :
        /\ pattern' = p
        /\ value' = v
        /\ result' = Match(p, v)
        /\ events' = Trace(p, v)
    /\ op' = "PtOr.match"
    /\ UNCHANGED <<known_cases, special_handlers, tree, pairs, cache_vars, text, heap_vars,
                   init_args, __names__, lookup, _Match_vars, trace_vars, hack_vars,
                   matcher, exe_log>>

\* PtClass.match(value, get) with value and get watched
TraceClass ==
    /\ op = "init"
    /\ \E p \in OrderClassPatterns, v \in ClassValues :
        /\ pattern' = p
        /\ value' = v
        /\ pairs' = PtClass_pairs(p, v)
        /\ result' = Match(p, v)
        /\ events' = Trace(p, v)
    /\ op' = "PtClass.match"
    /\ UNCHANGED <<known_cases, special_handlers, tree, cache_vars, text, heap_vars,
                   init_args, __names__, lookup, _Match_vars, trace_vars, hack_vars,
                   matcher, exe_log>>

OrderNext ==
    \/ TraceOr
    \/ TraceClass

OrderSpec == Init /\ [][OrderNext]_vars

\* ---- class patterns without sub-patterns, under every registry
EmptyClassNames == {"Point", "Opaque", "DPoint", "int", "bool", "str", "list", "dict", "Missing"}
EmptyClassPatterns ==
    {PtClass(PtValue(<<c>>), <<>>, <<>>) : c \in EmptyClassNames}
        \cup {PtClass(PtValue(<<"Color", "RED">>), <<>>, <<>>)}

\* PtClass.match(value, get) of T(), value and registry watched
TraceEmptyClass ==
    /\ op = "init"
    /\ \E p \in EmptyClassPatterns, v \in BuiltinValues :
        /\ pattern' = p
        /\ value' = v
        /\ pairs' = PtClass_pairs(p, v)
        /\ result' = Match(p, v)
        /\ events' = Trace(p, v)
    /\ op' = "T().match"
    /\ UNCHANGED <<known_cases, special_handlers, tree, cache_vars, text, heap_vars,
                   init_args, __names__, lookup, _Match_vars, trace_vars, hack_vars,
                   matcher, exe_log>>

EmptyClassNext ==
    \/ register
    \/ register_special
    \/ TraceEmptyClass

EmptyClassSpec == Init /\ [][EmptyClassNext]_vars

\* ---- sequence patterns against text, bytes, tuples and non-sequences
CaptureRow == <<"a", "b", "c", "d", "e", "f", "g", "h">>
\* n captures, named from the row after the first lo names
Captures(lo, n) == [i \in 1..n |-> PtCapture(CaptureRow[lo + i])]
SequenceLikeFixed ==
    {PtFixedSequence(Captures(0, n)) : n \in 0..MaxSeqLen}
        \cup {PtFixedSequence(<<PtLiteral(PyStr(<<"a">>)), PtCapture("b")>>),
              PtFixedSequence(<<PtLiteral(PyInt(0)), PtCapture("b")>>)}
SequenceLikeVariable ==
    {PtVariableSequence(Captures(0, i), "rest", Captures(i, j)) :
        i \in 0..MaxSub, j \in 0..MaxSub}
        \cup {PtVariableSequence(<<PtLiteral(PyStr(<<"a">>))>>, "rest", <<>>)}
Texts == {PyStr(cs) : cs \in SeqsOf({"a", "b"}, 0, MaxSeqLen)}
ByteStrings == {PyBytes(bs) : bs \in SeqsOf({0, 1}, 0, MaxSub)}
Tuples == {PyTuple(xs) : xs \in SeqsOf(IntVals, 0, MaxSub)}
Sets == {PySet(xs) : xs \in SUBSET IntVals}
SequenceLikeValues ==
    Texts \cup ByteStrings \cup Tuples \cup ListVals \cup Sets \cup DictVals \cup IntVals
        \cup {PyObj("Point", ("x" :> PyInt(0)) @@ ("y" :> PyInt(0)))}

\* PtFixedSequence.match(value, get)
MatchSequenceLikeFixed ==
    /\ op = "init"
    /\ \E p \in SequenceLikeFixed, v \in SequenceLikeValues :
        /\ pattern' = p
        /\ value' = v
        /\ result' = Match(p, v)
    /\ op' = "PtFixedSequence.match"
    /\ UNCHANGED <<known_cases, special_handlers, tree, pairs>>
    /\ UNCHANGED <<cache_vars, text, heap_vars, host_vars>>

\* PtVariableSequence.match(value, get)
MatchSequenceLikeVariable ==
    /\ op = "init"
    /\ \E p \in SequenceLikeVariable, v \in SequenceLikeValues :
        /\ pattern' = p
        /\ value' = v
        /\ result' = Match(p, v)
    /\ op' = "PtVariableSequence.match"
    /\ UNCHANGED <<known_cases, special_handlers, tree, pairs>>
    /\ UNCHANGED <<cache_vars, text, heap_vars, host_vars>>

SequenceNext ==
    \/ MatchSequenceLikeFixed
    \/ MatchSequenceLikeVariable

SequenceSpec == Init /\ [][SequenceNext]_vars

MatcherNext ==
    \/ MatcherInit
    \/ MatcherGet

MatcherSpec == Init /\ [][MatcherNext]_vars

\* successive calls of match and what the host does with their results
ObjectNext ==
    \/ MatchObject
    \/ HostWrite

ObjectSpec == Init /\ [][ObjectNext]_vars

\* compiling pattern texts and host expressions, and matching the result
CompileNext ==
    \/ Compile
    \/ Visit
    \/ MatchCompiled
    \/ MatchValue

CompileSpec == Init /\ [][CompileNext]_vars

\* a program that compiles more and more pattern texts
CacheNext == str2pattern

CacheSpec == Init /\ [][CacheNext]_vars

\* threads that compile the same texts at the same time
ThreadNext ==
    \/ str2pattern_call
    \/ str2pattern_run
    \/ str2pattern_store

ThreadSpec == Init /\ [][ThreadNext]_vars

(***************************************************************************)
(* Properties.  Each states what a match must return in terms of the       *)
(* value, the pattern's parts and the results of its sub-patterns.         *)
(***************************************************************************)
IsBindings(r) == r.k = "bindings"
Least(S) == CHOOSE i \in S : \A j \in S : i <= j

\* the bindings of the results rs[1..i] merged in order, later ones overwriting
RECURSIVE Merged(_, _)
Merged(rs, i) == IF i = 0 THEN EmptyDict ELSE rs[i].b @@ Merged(rs, i - 1)

\* ---- mapping patterns
EntryKey(i) == pattern.elements[i][1].value
EntryPresent(i) == EntryKey(i) \in DOMAIN value.d
EntryResult(i) == Match(pattern.elements[i][2], value.d[EntryKey(i)])
ListedKeys == {EntryKey(i) : i \in DOMAIN pattern.elements}
EntriesMatch ==
    /\ IsMapping(value)
    /\ \A i \in DOMAIN pattern.elements : EntryPresent(i) /\ IsBindings(EntryResult(i))

\* C1: when a mapping pattern with a rest capture matches, the rest name is
\* bound to a new mapping holding exactly the entries of the value whose keys
\* are not listed in the pattern.
C1_RestExcludesListedKeys ==
    (op = "PtMapping.match" /\ pattern.star # NoStar /\ IsBindings(result)) =>
        result.b[pattern.star] =
            PyDict([key \in DOMAIN value.d \ ListedKeys |-> value.d[key]])

\* C5: a mapping pattern without a rest capture matches iff the value is a
\* mapping, every listed key is present and every listed value pattern
\* matches the value under its key; the bindings are those of the value
\* patterns alone, so keys that are not listed neither fail the match nor
\* bind anything.
C5_MappingWithoutRest ==
    (op = "PtMapping.match" /\ pattern.star = NoStar) =>
        /\ IsBindings(result) <=> EntriesMatch
        /\ ~EntriesMatch => result = PyNone
        /\ EntriesMatch =>
              result.b = Merged([i \in DOMAIN pattern.elements |-> EntryResult(i)],
                                Len(pattern.elements))

\* C5 witness: both listed keys are present and match, and the value has a
\* third key that is not listed
C5_Witness ==
    /\ op = "PtMapping.match"
    /\ pattern = PtMapping(<< <<PtLiteral(PyStr(<<"a">>)), PtCapture("a")>>,
                              <<PtLiteral(PyStr(<<"b">>)), PtLiteral(PyInt(0))>> >>, NoStar)
    /\ IsMapping(value)
    /\ DOMAIN value.d = KeyVals
    /\ result = Bindings("a" :> value.d[PyStr(<<"a">>)])

\* ---- or patterns
OptionResult(i) == Match(pattern.options[i], value)
MatchingOptions == {i \in DOMAIN pattern.options : IsBindings(OptionResult(i))}
DecidingOptions == {i \in DOMAIN pattern.options : OptionResult(i) # PyNone}

\* C2 as claimed: an or pattern matches iff at least one option matches, and
\* its bindings are those of the leftmost option that matches.
C2_LeftmostMatchingOption ==
    op = "PtOr.match" =>
        /\ IsBindings(result) <=> MatchingOptions # {}
        /\ MatchingOptions # {} => result = OptionResult(Least(MatchingOptions))

\* C2 as amended: the result of an or pattern is the result of the leftmost
\* option that does not fail: its bindings if it matches, its error if it
\* raises; it is failure iff every option fails.
C2_LeftmostDecidingOption ==
    op = "PtOr.match" =>
        IF DecidingOptions = {} THEN result = PyNone
        ELSE result = OptionResult(Least(DecidingOptions))

\* C2 witness: two options match with different bindings and the first wins
C2_Witness ==
    /\ op = "PtOr.match"
    /\ Len(pattern.options) = 2
    /\ MatchingOptions = {1, 2}
    /\ OptionResult(1) # OptionResult(2)
    /\ result = OptionResult(1)

\* ---- sequence patterns
ElemAt(i) == Elems(value)[i]
PreMatches ==
    \A i \in DOMAIN pattern.pre : IsBindings(Match(pattern.pre[i], ElemAt(i)))
PostAt(j) == ElemAt(PyLen(value) - Len(pattern.post) + j)
PostMatches ==
    \A j \in DOMAIN pattern.post : IsBindings(Match(pattern.post[j], PostAt(j)))
VariableSequenceMatches ==
    /\ IsSequence(value)
    /\ PyLen(value) >= Len(pattern.pre) + Len(pattern.post)
    /\ PreMatches
    /\ PostMatches
\* value[len(pre) : len(value) - len(post)]
MiddleSlice ==
    LET lo == Len(pattern.pre) + 1
        hi == PyLen(value) - Len(pattern.post)
    IN  IF value.k = "list" THEN PyList(SubSeq(value.items, lo, hi))
        ELSE PyStr(SubSeq(value.chars, lo, hi))
\* the post sub-patterns that capture the star name
PostCapturesStar ==
    {j \in DOMAIN pattern.post : pattern.star \in DOMAIN Match(pattern.post[j], PostAt(j)).b}

\* C3 as claimed: a variable sequence pattern matches iff the value is a
\* sequence of at least len(pre)+len(post) elements whose first elements match
\* pre and whose last elements match post; on success the star name is bound
\* to the middle slice, for every len(post) including 0.
C3_StarIsMiddleSlice ==
    op = "PtVariableSequence.match" =>
        /\ IsBindings(result) <=> VariableSequenceMatches
        /\ IsBindings(result) => result.b[pattern.star] = MiddleSlice

\* C3 as amended: the same, but the star name is bound to the middle slice
\* only if no sub-pattern of post captures the star name; if one does, the
\* name is bound to what the last such sub-pattern of post captured.
C3_StarIsMiddleSliceUnlessRecaptured ==
    op = "PtVariableSequence.match" =>
        /\ IsBindings(result) <=> VariableSequenceMatches
        /\ ~VariableSequenceMatches => result = PyNone
        /\ (IsBindings(result) /\ PostCapturesStar = {}) =>
                result.b[pattern.star] = MiddleSlice
        /\ (IsBindings(result) /\ PostCapturesStar # {}) =>
                LET j == CHOOSE x \in PostCapturesStar : \A y \in PostCapturesStar : y <= x
                IN  result.b[pattern.star] = Match(pattern.post[j], PostAt(j)).b[pattern.star]

\* C3 witness: [a, *rest] with an empty post against a list of three
C3_Witness ==
    /\ op = "PtVariableSequence.match"
    /\ pattern = PtVariableSequence(<<PtCapture("a")>>, "rest", <<>>)
    /\ value = PyList(<<PyInt(1), PyInt(0), PyInt(1)>>)
    /\ result = Bindings(("a" :> PyInt(1)) @@ ("rest" :> PyList(<<PyInt(0), PyInt(1)>>)))

FixedSequenceMatches ==
    /\ IsSequence(value)
    /\ PyLen(value) = Len(pattern.elements)
    /\ \A i \in DOMAIN pattern.elements : IsBindings(Match(pattern.elements[i], ElemAt(i)))

\* C4: a fixed sequence pattern matches iff the value is a sequence whose
\* length is the number of element patterns and every element pattern matches
\* the element at its position; the empty pattern matches the empty sequences
\* only, a value that is no sequence fails, and [0, 0] matches [0, 0] with
\* empty bindings and fails on [0, 0, 0].
C4_FixedSequence ==
    op = "PtFixedSequence.match" =>
        /\ IsBindings(result) <=> FixedSequenceMatches
        /\ ~FixedSequenceMatches => result = PyNone
        /\ pattern.elements = <<>> =>
              (IsBindings(result) <=> (IsSequence(value) /\ PyLen(value) = 0))
        /\ ~IsSequence(value) => result = PyNone
        /\ pattern.elements = <<PtLiteral(PyInt(0)), PtLiteral(PyInt(0))>> =>
              /\ value = PyList(<<PyInt(0), PyInt(0)>>) => result = Bindings(EmptyDict)
              /\ value = PyList(<<PyInt(0), PyInt(0), PyInt(0)>>) => result = PyNone

\* C4 witness: [0, 0] against [0, 0]
C4_Witness ==
    /\ op = "PtFixedSequence.match"
    /\ pattern = PtFixedSequence(<<PtLiteral(PyInt(0)), PtLiteral(PyInt(0))>>)
    /\ value = PyList(<<PyInt(0), PyInt(0)>>)
    /\ result = Bindings(EmptyDict)

\* ---- class patterns
ClassName == pattern.cls.attributes[1]
TypeResolved == ClassName \in DOMAIN MatcherNames /\ IsType(MatcherNames[ClassName])
ClassType == MatcherNames[ClassName]
FieldList == __match_args__(ClassType)
IsInstanceOfClass == TypeResolved /\ IsInstance(value, ClassType)
KeywordName(i) == pattern.kwargs[i][1]
KeywordNames == {KeywordName(i) : i \in DOMAIN pattern.kwargs}
KeywordResult(i) == Match(pattern.kwargs[i][2], GetAttr(value, KeywordName(i)))
TooManyPositional == Raise("TypeError", "Too many positional arguments")
DuplicateKeyword == Raise("TypeError", "Duplicate keyword")

KeywordsMatch ==
    /\ IsInstanceOfClass
    /\ \A i \in DOMAIN pattern.kwargs : HasAttr(value, KeywordName(i))
    /\ \A i \in DOMAIN pattern.kwargs : IsBindings(KeywordResult(i))

\* C6: a class pattern with keyword sub-patterns only matches iff the value
\* is an instance of the resolved type, every named attribute can be read and
\* every sub-pattern matches its attribute; the bindings are the merge of the
\* sub-patterns' bindings.  Point(x=0, y=y) yields {y: 1} for x=0, y=1, fails
\* for x=1, y=1 and fails for the value 0, which is no instance.
C6_KeywordClassPattern ==
    (op = "PtClass.match" /\ Len(pattern.args) = 0 /\ Len(pattern.kwargs) > 0) =>
        /\ IsBindings(result) <=> KeywordsMatch
        /\ (TypeResolved /\ ~KeywordsMatch) => result = PyNone
        /\ KeywordsMatch =>
              result.b = Merged([i \in DOMAIN pattern.kwargs |-> KeywordResult(i)],
                                Len(pattern.kwargs))
        /\ pattern = PtClass(PtValue(<<"Point">>), <<>>,
                             << <<"x", PtLiteral(PyInt(0))>>, <<"y", PtCapture("y")>> >>) =>
              /\ value = PyObj("Point", ("x" :> PyInt(0)) @@ ("y" :> PyInt(1)))
                    => result = Bindings("y" :> PyInt(1))
              /\ value = PyObj("Point", ("x" :> PyInt(1)) @@ ("y" :> PyInt(1)))
                    => result = PyNone
              /\ value = PyInt(0) => result = PyNone

\* C6 witness: Point(x=0, y=y) against Point(0, 1)
C6_Witness ==
    /\ op = "PtClass.match"
    /\ pattern = PtClass(PtValue(<<"Point">>), <<>>,
                         << <<"x", PtLiteral(PyInt(0))>>, <<"y", PtCapture("y")>> >>)
    /\ value = PyObj("Point", ("x" :> PyInt(0)) @@ ("y" :> PyInt(1)))
    /\ result = Bindings("y" :> PyInt(1))

\* the class pattern tree names a known type and has more positional
\* sub-patterns than the type has fields
TreePositionals ==
    IF tree.children[2] = PyNone \/ Len(tree.children[2].children) = 1 THEN 0
    ELSE Len(tree.children[2].children[1].children)
TreeClassName == tree.children[1].children[1].value
TreeHasTooManyPositionals ==
    /\ tree # PyNone
    /\ TreeClassName \in DOMAIN MatcherNames
    /\ IsType(MatcherNames[TreeClassName])
    /\ TreePositionals > Len(__match_args__(MatcherNames[TreeClassName]))

\* C7 as claimed: a class pattern with more positional sub-patterns than the
\* type has fields fails to compile with the too-many-positional-arguments
\* error, whatever value is matched later, and a match of it never reports an
\* ordinary failure.
C7_TooManyPositionalsAtCompileTime ==
    TreeHasTooManyPositionals =>
        /\ op = "transform" => result = TooManyPositional
        /\ op = "PtClass.match" => result = TooManyPositional

\* C7 as amended: such a pattern compiles to a class pattern that keeps all
\* its positional sub-patterns; the too-many-positional-arguments TypeError is
\* raised when the pattern is matched against an instance of the type, before
\* any attribute is read; against a value that is no instance the match
\* returns ordinary failure.
C7_TooManyPositionalsAtMatchTime ==
    TreeHasTooManyPositionals =>
        /\ op = "transform" =>
              /\ result.k = "PtClass"
              /\ Len(result.args) = TreePositionals
        /\ op = "PtClass.match" =>
              /\ IsInstanceOfClass => (result = TooManyPositional /\ pairs = TooManyPositional)
              /\ ~IsInstanceOfClass => (result = PyNone /\ pairs = NotCalled)

\* C7 witness: Point with three positionals matched against a Point
C7_Witness ==
    /\ op = "PtClass.match"
    /\ TreeHasTooManyPositionals
    /\ ClassName = "Point"
    /\ Len(pattern.args) = Len(FieldList) + 1
    /\ IsInstanceOfClass
    /\ result = TooManyPositional

\* a field name implied by a positional sub-pattern is also a keyword
PositionalAlsoKeyword ==
    \E i \in 1..Len(pattern.args) : i <= Len(FieldList) /\ FieldList[i] \in KeywordNames

\* C8 as claimed: match_args_and_kwargs raises the duplicate-keyword error
\* whenever a field name implied by a positional sub-pattern is also given as
\* a keyword; no pairs are returned and no sub-pattern is matched.
C8_DuplicateKeywordAlways ==
    (op = "PtClass.match" /\ pairs # NotCalled /\ PositionalAlsoKeyword) =>
        (pairs = DuplicateKeyword /\ result = DuplicateKeyword)

\* C8 as amended: it does so whenever the positional sub-patterns are no more
\* than the fields; with more positional sub-patterns than fields the
\* too-many-positional-arguments error is raised instead.  Either way no
\* pairs are returned and no sub-pattern is matched.
C8_DuplicateKeywordAfterArity ==
    (op = "PtClass.match" /\ pairs # NotCalled /\ PositionalAlsoKeyword) =>
        /\ Len(pattern.args) <= Len(FieldList) =>
              (pairs = DuplicateKeyword /\ result = DuplicateKeyword)
        /\ Len(pattern.args) > Len(FieldList) =>
              (pairs = TooManyPositional /\ result = TooManyPositional)

\* C8 witness: Point(a, x=0) against a Point
C8_Witness ==
    /\ op = "PtClass.match"
    /\ ClassName = "Point"
    /\ Len(pattern.args) = 1
    /\ KeywordNames = {"x"}
    /\ IsInstanceOfClass
    /\ pairs = DuplicateKeyword
    /\ result = DuplicateKeyword

\* the field names match_args_and_kwargs resolves, when it raises nothing
ResolvedNames ==
    {FieldList[i] : i \in 1..Len(pattern.args)} \cup KeywordNames
NamesResolve ==
    /\ Len(pattern.args) + Len(pattern.kwargs) > 0
    /\ Len(pattern.args) <= Len(FieldList)
    /\ ~PositionalAlsoKeyword
    /\ \A i, j \in 1..Len(pattern.args) : FieldList[i] = FieldList[j] => i = j
Unreadable(n) == n \notin special_attributes /\ ~HasAttr(value, n)

\* C9: if a field name resolved for a class pattern, by position or by
\* keyword, cannot be read from the instance, the match returns failure and
\* raises nothing; no sub-pattern is matched.
C9_MissingFieldFails ==
    (op = "PtClass.match" /\ IsInstanceOfClass /\ NamesResolve
        /\ \E n \in ResolvedNames : Unreadable(n)) =>
            (result = PyNone /\ pairs = PyNone)

\* C9 witness: Point(a, a) against a Point that has x but lacks y
C9_Witness ==
    /\ op = "PtClass.match"
    /\ ClassName = "Point"
    /\ Len(pattern.args) = 2
    /\ Len(pattern.kwargs) = 0
    /\ value = PyObj("Point", "x" :> PyInt(0))
    /\ result = PyNone

\* nothing knows the type: no __match_args__ of its own, no builtin entry, no
\* override in known_cases and no handler that accepts it
UnknownType(t) ==
    /\ ~TypeTable[t.name].match_args.has
    /\ t.name \notin builtin_types
    /\ TypeTable[t.name].qualname \notin DOMAIN known_cases
    /\ \A i \in DOMAIN special_handlers : ~HandlerAccepts(special_handlers[i], t)

\* C10 as claimed: the field list of such a type is empty, and every class
\* pattern with at least one positional or keyword sub-pattern against an
\* instance of it ends with the too-many-arguments error; it never matches.
C10_UnknownTypeNeverMatches ==
    (op = "PtClass.match" /\ TypeResolved /\ UnknownType(ClassType)) =>
        /\ FieldList = <<>>
        /\ (IsInstanceOfClass /\ Len(pattern.args) + Len(pattern.kwargs) > 0) =>
              result = TooManyPositional

\* C10 as amended: the field list of such a type is empty, and every class
\* pattern with at least one positional sub-pattern against an instance of it
\* raises the too-many-positional-arguments TypeError and never matches; a
\* pattern with keyword sub-patterns only never raises that error: it reads
\* the named attributes of the instance and matches iff all can be read and
\* all sub-patterns match.
C10_UnknownTypePositionalsNeverMatch ==
    (op = "PtClass.match" /\ TypeResolved /\ UnknownType(ClassType)) =>
        /\ FieldList = <<>>
        /\ (IsInstanceOfClass /\ Len(pattern.args) > 0) => result = TooManyPositional
        /\ (IsInstanceOfClass /\ Len(pattern.args) = 0 /\ Len(pattern.kwargs) > 0) =>
              /\ result # TooManyPositional
              /\ IsBindings(result) <=> KeywordsMatch

\* C10 witness: Opaque(a) against an Opaque while nothing knows Opaque
C10_Witness ==
    /\ op = "PtClass.match"
    /\ ClassName = "Opaque"
    /\ UnknownType(ClassType)
    /\ Len(pattern.args) = 1
    /\ IsInstanceOfClass
    /\ result = TooManyPositional

\* ---- the order of field resolution
Declares(t) == TypeTable[t.name].match_args.has
IsBuiltin(t) == t.name \in builtin_types
HasOverride(t) == TypeTable[t.name].qualname \in DOMAIN known_cases
Override(t) == known_cases[TypeTable[t.name].qualname]
AcceptingHandlers(t) ==
    {i \in DOMAIN special_handlers : HandlerAccepts(special_handlers[i], t)}
FallbackFields(t) ==
    IF AcceptingHandlers(t) = {} THEN <<>>
    ELSE HandlerArgs(special_handlers[Least(AcceptingHandlers(t))], t)
\* the order the claim gives: override, builtin table, declaration, handlers
OverrideFirstFields(t) ==
    IF HasOverride(t) THEN Override(t)
    ELSE IF IsBuiltin(t) THEN <<"<self>">>
    ELSE IF Declares(t) THEN TypeTable[t.name].match_args.v
    ELSE FallbackFields(t)
\* the order of the code: declaration, builtin table, override, handlers
DeclarationFirstFields(t) ==
    IF Declares(t) THEN TypeTable[t.name].match_args.v
    ELSE IF IsBuiltin(t) THEN <<"<self>">>
    ELSE IF HasOverride(t) THEN Override(t)
    ELSE FallbackFields(t)
ReadField(n) == IF n \in special_attributes THEN value ELSE GetAttr(value, n)
\* what match_args_and_kwargs must return for positional sub-patterns only,
\* if fields is the field list of the type
PositionalPairs(fields) ==
    IF Len(pattern.args) > Len(fields) THEN TooManyPositional
    ELSE IF \E i \in 1..Len(pattern.args) : Unreadable(fields[i]) THEN PyNone
    ELSE Pairs([i \in 1..Len(pattern.args) |-> <<pattern.args[i], ReadField(fields[i])>>])
PositionalOnlyMatch ==
    /\ op = "PtClass.match"
    /\ IsInstanceOfClass
    /\ Len(pattern.args) > 0
    /\ Len(pattern.kwargs) = 0

\* C11 as claimed: the field list of a type is its override in known_cases if
\* one is registered, else its builtin entry, else its own __match_args__,
\* else what the first accepting handler gives; so the positional
\* sub-patterns of a class pattern are paired with the fields of the override
\* even if the type declares __match_args__ or is a builtin.
C11_OverrideFirst ==
    PositionalOnlyMatch => pairs = PositionalPairs(OverrideFirstFields(ClassType))

\* C11 as amended: the field list of a type is its own __match_args__ if it
\* declares one, else its builtin entry, else its override in known_cases,
\* else what the first accepting handler gives, else empty; an override
\* decides only for a type that declares nothing and is no builtin, and it
\* does come before the handlers.
C11_DeclarationFirst ==
    PositionalOnlyMatch =>
        /\ pairs = PositionalPairs(DeclarationFirstFields(ClassType))
        /\ (HasOverride(ClassType) /\ ~Declares(ClassType) /\ ~IsBuiltin(ClassType)) =>
              pairs = PositionalPairs(Override(ClassType))

\* C11 witness: Point declares (x, y) and has the override (y, x); Point(a)
\* against Point(x=0, y=1) pairs a with x
C11_Witness ==
    /\ op = "PtClass.match"
    /\ ClassName = "Point"
    /\ HasOverride(ClassType)
    /\ pattern.args = <<PtCapture("a")>>
    /\ Len(pattern.kwargs) = 0
    /\ value = PyObj("Point", ("x" :> PyInt(0)) @@ ("y" :> PyInt(1)))
    /\ pairs = Pairs(<< <<PtCapture("a"), PyInt(0)>> >>)
    /\ result = Bindings("a" :> PyInt(0))

\* C12: for every builtin type T of the table, T(p) matches a value iff the
\* value is an instance of T and p matches the value itself, with the
\* bindings of p; str(a) binds a to the string and fails on 1, float(a)
\* fails on a string.
C12_BuiltinClassPattern ==
       (op = "PtClass.match" /\ ClassName \in builtin_types /\ TypeResolved
            /\ Len(pattern.args) = 1 /\ Len(pattern.kwargs) = 0) =>
          /\ IsBindings(result) <=>
                (TypeOf(value) \in TypeNames
                    /\ ClassName \in TypeTable[TypeOf(value)].mro
                    /\ IsBindings(Match(pattern.args[1], value)))
          /\ ~IsBindings(result) => result = PyNone
          /\ (IsBindings(result) /\ pattern.args[1].k = "PtCapture") =>
                result.b = (pattern.args[1].name :> value)
          /\ (IsBindings(result) /\ pattern.args[1].k = "PtLiteral") => result.b = EmptyDict

\* C12 witness: str(a) against "ab" binds a to the string
C12_Witness ==
    /\ op = "PtClass.match"
    /\ pattern = PtClass(PtValue(<<"str">>), <<PtCapture("a")>>, <<>>)
    /\ value = PyStr(<<"a", "b">>)
    /\ result = Bindings("a" :> PyStr(<<"a", "b">>))

\* ---- the pattern cache
CompiledTexts == {s \in DOMAIN parsed : parsed[s] > 0}

\* C13: entries are never evicted: every text compiled so far is cached, and
\* no text has been parsed more than once, however many distinct texts were
\* compiled.
C13_NeverEvicted ==
    \A s \in CompiledTexts : s \in CacheKeys(cache) /\ parsed[s] = 1

\* C14: threads that call str2pattern at the same time with the same text
\* parse it at most once, and all of them return the one cached entry.
C14_ParsedOncePerText ==
    /\ \A s \in CompiledTexts : parsed[s] <= 1
    /\ \A t \in DOMAIN threads :
          (threads[t].pc = "idle" /\ threads[t].ret # PyNone) =>
              threads[t].ret = cache[lru_index(cache, threads[t].s)]

\* ---- the compilers
Compiled == op \in {"str2pattern", "ast2pattern"}

\* some PtOr of the pattern has a PtOr among its options
RECURSIVE NestedOr(_)
NestedOr(p) ==
    CASE p.k = "PtOr" ->
            \E i \in DOMAIN p.options : p.options[i].k = "PtOr" \/ NestedOr(p.options[i])
      [] p.k = "PtCaptureAs" -> NestedOr(p.base)
      [] p.k = "PtFixedSequence" -> \E i \in DOMAIN p.elements : NestedOr(p.elements[i])
      [] p.k = "PtVariableSequence" ->
            \/ \E i \in DOMAIN p.pre : NestedOr(p.pre[i])
            \/ \E i \in DOMAIN p.post : NestedOr(p.post[i])
      [] p.k = "PtMapping" -> \E i \in DOMAIN p.elements : NestedOr(p.elements[i][2])
      [] p.k = "PtClass" ->
            \/ \E i \in DOMAIN p.args : NestedOr(p.args[i])
            \/ \E i \in DOMAIN p.kwargs : NestedOr(p.kwargs[i][2])
      [] OTHER -> FALSE

OrOfThree == PtOr(<<PtCapture("a"), PtCapture("b"), PtLiteral(PyInt(0))>>)

\* C15: an or pattern with an option that is itself a parenthesized or
\* pattern compiles to one PtOr of the leaf options in source order, in the
\* text compiler and in the host-expression compiler: (a|b)|0 is the PtOr of
\* a, b and 0, and no compiled PtOr has a PtOr among its options.
C15_NestedOrIsFlattened ==
    (Compiled /\ pattern # PyNone) =>
        /\ ~NestedOr(pattern)
        /\ text = <<"(", "a", "|", "b", ")", "|", "0">> => pattern = OrOfThree
        /\ tree = AstBinOp(AstBinOp(AstName("a"), "BitOr", AstName("b")), "BitOr",
                           AstConstant(PyInt(0))) => pattern = OrOfThree

\* the star items of the sequence that was compiled
IsStarItem(x) ==
    \/ x.k = "Tree" /\ x.data = "star_pattern"
    \/ x.k = "Starred"
SequenceItems ==
    IF op = "str2pattern" /\ tree.k = "Tree" /\ tree.children[1].k = "Tree"
            /\ tree.children[1].data = "sequence"
    THEN tree.children[1].children
    ELSE IF op = "ast2pattern" /\ tree.k \in {"List", "Tuple"} THEN tree.elts
    ELSE <<>>
StarItems == {i \in DOMAIN SequenceItems : IsStarItem(SequenceItems[i])}

\* C16: a sequence pattern with more than one star item is rejected by both
\* compilers with a SyntaxError and yields no Pattern; a sequence with one
\* star item compiles to a PtVariableSequence with that one star.
C16_MultipleStarsSyntaxError ==
    Compiled =>
        /\ Cardinality(StarItems) > 1 =>
              (result = Raise("SyntaxError", "") /\ pattern = PyNone)
        /\ (pattern # PyNone /\ pattern.k = "PtVariableSequence") =>
              Cardinality(StarItems) = 1

\* the names and dotted names among the pattern texts, with their spelling
BareName ==
    (<<"a">> :> "a") @@ (<<"b">> :> "b") @@ (<<"_">> :> "_") @@ (<<"_", "x">> :> "_x")
        @@ (<<"R", "E", "D">> :> "RED") @@ (<<"Z", "E", "R", "O">> :> "ZERO")
DottedName ==
    (<<"C", "o", "l", "o", "r", ".", "R", "E", "D">> :> <<"Color", "RED">>)
        @@ (<<"C", "o", "l", "o", "r", ".", "B", "L", "U", "E">> :> <<"Color", "BLUE">>)
        @@ (<<"M", "i", "s", "s", "i", "n", "g", ".", "R", "E", "D">> :> <<"Missing", "RED">>)
CompiledText == op = "str2pattern" /\ text # <<>>
MatchedText == op = "Pattern.match" /\ text # <<>>
BindsNothing == IsBindings(result) => result.b = EmptyDict

\* C17 as claimed: a bare identifier that begins with a lowercase letter or _
\* compiles to a capture; a bare capitalized identifier and a dotted name
\* compile to a value reference, which binds nothing when matched.
C17_CapitalizedIsValueRef ==
    /\ CompiledText =>
          /\ (text \in DOMAIN BareName /\ Head(text) \in LowerChars \cup {"_"}) =>
                pattern = PtCapture(BareName[text])
          /\ (text \in DOMAIN BareName /\ Head(text) \in UpperChars) =>
                pattern = PtValue(<<BareName[text]>>)
          /\ text \in DOMAIN DottedName => pattern = PtValue(DottedName[text])
    /\ MatchedText =>
          /\ (text \in DOMAIN BareName /\ Head(text) \in UpperChars) => BindsNothing
          /\ text \in DOMAIN DottedName => BindsNothing

\* C17 as amended: every bare identifier, capitalized or not, compiles to a
\* capture that binds the identifier to the value, except None, True and
\* False, which are literals; only a dotted name compiles to a value
\* reference, which is compared with the resolved constant and binds nothing.
C17_BareNameIsCapture ==
    /\ CompiledText =>
          /\ text \in DOMAIN BareName => pattern = PtCapture(BareName[text])
          /\ text \in DOMAIN Keywords => pattern.k = "PtLiteral"
          /\ text \in DOMAIN DottedName => pattern = PtValue(DottedName[text])
    /\ MatchedText =>
          /\ text \in DOMAIN BareName => result = Bindings(BareName[text] :> value)
          /\ text \in DOMAIN Keywords => BindsNothing
          /\ text \in DOMAIN DottedName =>
                /\ BindsNothing
                /\ DottedName[text] = <<"Color", "RED">> =>
                      (IsBindings(result) <=> PyEq(value, ClassAttrs("Color")["RED"]))

\* C17 witness: the text RED matched against 1 binds RED to 1, although the
\* matcher knows a constant RED = 0
C17_Witness ==
    /\ op = "Pattern.match"
    /\ text = <<"R", "E", "D">>
    /\ "RED" \in DOMAIN MatcherNames
    /\ value = PyInt(1)
    /\ result = Bindings("RED" :> PyInt(1))

\* ---- unknown names
UnknownRef(p) == p.k = "PtValue" /\ p.attributes[1] \notin DOMAIN MatcherNames
UnknownKeys ==
    IF pattern.k = "PtMapping"
    THEN {i \in DOMAIN pattern.elements : UnknownRef(pattern.elements[i][1])}
    ELSE {}
NameErrorRaised == Raise("NameError", "")
\* entry i of the mapping pattern has a key that resolves and is in the
\* value, and its sub-pattern matches
KeyOf(i) == calc_value(pattern.elements[i][1])
RefEntryMatches(i) ==
    /\ KeyOf(i).k = "value"
    /\ \E x \in DOMAIN value.d :
          PyEq(x, KeyOf(i).v) /\ IsBindings(Match(pattern.elements[i][2], value.d[x]))

\* C18 as claimed: an unknown name in a value reference, used as a pattern or
\* as a mapping key, makes the match fail with None; a match never raises.
C18_UnknownNameIsFailure ==
    (op = "Pattern.match" /\ (UnknownRef(pattern) \/ UnknownKeys # {})) => result = PyNone

\* C18 as amended: the NameError of the resolver propagates out of match.  A
\* value reference with an unknown name raises it as a pattern for every
\* value; as a mapping key it raises it if the value is a mapping and all
\* entries before it matched, and otherwise the match fails before the key
\* is resolved.
C18_UnknownNameRaises ==
    op = "Pattern.match" =>
        /\ UnknownRef(pattern) => result = NameErrorRaised
        /\ UnknownKeys # {} =>
              IF IsMapping(value) /\ \A j \in 1..(Least(UnknownKeys) - 1) : RefEntryMatches(j)
              THEN result = NameErrorRaised
              ELSE result = PyNone

\* C18 witness: {KEY: a, Missing.RED: 0} against {"a": 0} raises NameError
\* after the first entry matched
C18_Witness ==
    /\ op = "Pattern.match"
    /\ pattern = PtMapping(<< <<PtValue(<<"KEY">>), PtCapture("a")>>,
                              <<PtValue(<<"Missing", "RED">>), PtLiteral(PyInt(0))>> >>, NoStar)
    /\ value = PyDict(PyStr(<<"a">>) :> PyInt(0))
    /\ result = NameErrorRaised

\* ---- captures of the same name
\* the bindings of the parts of the matched pattern, in the order in which
\* the code evaluates them: elements left to right, the star after pre and
\* before post, the rest of a mapping after its entries, positional before
\* keyword sub-patterns, the base of a capture-as before its name
\* used, the set PtMapping.match tests the keys of the value against
UsedKeyPatterns == {pattern.elements[i][1] : i \in DOMAIN pattern.elements}
ElementParts(ps, vs) == [i \in DOMAIN ps |-> Match(ps[i], vs[i]).b]
CaptureParts ==
    CASE pattern.k = "PtFixedSequence" -> ElementParts(pattern.elements, Elems(value))
      [] pattern.k = "PtVariableSequence" ->
            ElementParts(pattern.pre, Elems(value))
                \o <<pattern.star :> PySlice(value, Len(pattern.pre), PyLen(value) - Len(pattern.post))>>
                \o ElementParts(pattern.post,
                                Elems(PySlice(value, PyLen(value) - Len(pattern.post), PyLen(value))))
      [] pattern.k = "PtMapping" ->
            [i \in DOMAIN pattern.elements |-> EntryResult(i).b]
                \o (IF pattern.star = NoStar THEN <<>>
                    ELSE <<pattern.star :> PyDict([x \in DOMAIN value.d \ UsedKeyPatterns |-> value.d[x]])>>)
      [] pattern.k = "PtClass" ->
            LET prs == PtClass_pairs(pattern, value).pairs
            IN  [i \in DOMAIN prs |-> Match(prs[i][1], prs[i][2]).b]
      [] pattern.k = "PtCaptureAs" ->
            <<Match(pattern.base, value).b, pattern.name :> value>>
      [] OTHER -> <<>>
Capturing(n) == {i \in DOMAIN CaptureParts : n \in DOMAIN CaptureParts[i]}
LastCapturing(n) == CHOOSE i \in Capturing(n) : \A j \in Capturing(n) : j <= i
CapturedNames == UNION {DOMAIN CaptureParts[i] : i \in DOMAIN CaptureParts}
MatchedParts ==
    /\ op \in {"PtFixedSequence.match", "PtVariableSequence.match", "PtMapping.match",
               "PtClass.match", "PtCaptureAs.match"}
    /\ IsBindings(result)

LastCall == calls[Len(calls)]
Returned(i) == calls[i].ret # NoDict

\* C19: a call of match writes to no object that existed before the call
\* (the value, the pattern, the cache, the registry, the result of an
\* earlier call): it writes only to dicts it created itself; a successful
\* call returns a dict created by that call, different from the dict of
\* every other call, so that what the host writes to one result changes no
\* other result.
C19_MatchIsPureAndFresh ==
    /\ \A i \in DOMAIN calls :
          /\ \A d \in calls[i].written : d.call = i
          /\ Returned(i) => calls[i].ret.call = i
          /\ \A j \in DOMAIN calls : (i # j /\ Returned(i) /\ Returned(j)) => calls[i].ret # calls[j].ret
          /\ (Returned(i) /\ i \notin touched) => heap[calls[i].ret] = calls[i].b
    /\ (op = "Pattern.match" /\ calls # <<>>) =>
          (Returned(Len(calls)) <=> IsBindings(result))

\* C19 witness: two calls of (0 as a) both matched, the base's dict was
\* written to by each, and the host has written to the first result
C19_Witness ==
    /\ Len(calls) = 2
    /\ pattern = PtCaptureAs(PtLiteral(PyInt(0)), "a")
    /\ Returned(1) /\ Returned(2)
    /\ calls[1].written # {} /\ calls[2].written # {}
    /\ touched = {1}
    /\ "z" \in DOMAIN heap[calls[1].ret]
    /\ "z" \notin DOMAIN heap[calls[2].ret]

\* ---- the names of a Matcher
PositionalNames == {init_args.args[i].name : i \in {j \in DOMAIN init_args.args : init_args.args[j].k = "type"}}
Unnamed == {i \in DOMAIN init_args.args : init_args.args[i].k # "type"}
GivenNames == PositionalNames \cup DOMAIN init_args.kwargs

\* C21: a Matcher resolves a name iff the name was given to its constructor,
\* as a keyword argument or as a positional object whose __name__ it is, and
\* to the object given (the positional one if both were); every other name,
\* a builtin included, raises NameError; and constructing a Matcher with a
\* positional object that has no __name__ raises ValueError.
C21_MatcherResolvesGivenNames ==
    /\ op = "Matcher" =>
          IF Unnamed # {} THEN result.k = "raise" /\ result.exc = "ValueError"
          ELSE result = PyNone /\ DOMAIN __names__ = GivenNames
    /\ op = "Matcher._get" =>
          IF lookup \in PositionalNames THEN result = [k |-> "value", v |-> PyType(lookup)]
          ELSE IF lookup \in DOMAIN init_args.kwargs
               THEN result = [k |-> "value", v |-> init_args.kwargs[lookup]]
          ELSE result = Raise("NameError", "")

\* C21 witness: Matcher(Point, ZERO=0) resolves Point and raises NameError
\* for int
C21_Witness ==
    /\ op = "Matcher._get"
    /\ init_args = [args |-> <<PyType("Point")>>, kwargs |-> ("ZERO" :> PyInt(0))]
    /\ lookup = "int"
    /\ result = Raise("NameError", "")

\* ---- the cases of a _Match object
LastCase == case_log[Len(case_log)]
\* what the pattern of the last case gives for the value
LastCaseMatch == Match(CompiledPattern(str2pattern_body(LastCase.text)), LastCase.value)
LastCaseCompiles == CompiledPattern(str2pattern_body(LastCase.text)) # PyNone

\* C28: on a _Match object, case(pattern) returns True and replaces the
\* stored bindings with the bindings of the new match when the pattern
\* matches, and returns False and leaves the stored bindings as they were
\* when it does not; the matched value is never changed.
C28_CaseKeepsLatestBindings ==
    (op = "_Match.case" /\ LastCaseCompiles /\ LastCaseMatch.k # "raise") =>
        /\ __value__ = LastCase.value
        /\ IF IsBindings(LastCaseMatch)
           THEN result = PyBool(TRUE) /\ __vars__ = LastCaseMatch
           ELSE result = PyBool(FALSE) /\ __vars__ = LastCase.vars

\* ---- the trace hooks of inject_trace_func
Installed(f) == registered[f] # {}
\* every event functions were registered for has fired since
AllFired(f) == Installed(f) /\ registered[f] \subseteq fired[f]
TracerCalled == op = "_FrameTracer.__call__"
TracerRaised == TracerCalled /\ result.k = "raise"

\* C27 as stated: once every event for which functions were registered on
\* a frame has fired, the frame is no longer in _frame_tracer, its f_trace
\* is the original trace function, trace_counter is the number of frames in
\* _frame_tracer and not negative, and system-wide tracing is off again if
\* this module had switched it on and the counter is 0.
C27_HooksRemovedAfterEveryEvent ==
    /\ trace_counter = Cardinality(DOMAIN _frame_tracer)
    /\ trace_counter >= 0
    /\ \A f \in Frames : AllFired(f) =>
          /\ f \notin DOMAIN _frame_tracer
          /\ f_trace[f] = orig_trace[f]
          /\ (_orig_sys_trace = PyNone /\ trace_counter = 0) => sys_trace = PyNone

\* C27 amended: a frame is in _frame_tracer exactly while a function
\* injected on it has not run yet (a function that raises does not keep the
\* other functions of its event from running); trace_counter is the number
\* of frames in _frame_tracer; the dummy system trace function is installed
\* only while the counter is positive; and after a call of the tracer the
\* frame's f_trace is None if an injected function raised (system-wide
\* tracing is then off), the tracer if the frame is still registered, and
\* otherwise what the original trace function returned in this call, None
\* if there was none.
C27_HooksRemovedWhenAllRan ==
    /\ trace_counter = Cardinality(DOMAIN _frame_tracer)
    /\ \A f \in Frames : f \in DOMAIN _frame_tracer <=> not_run[f] # {}
    /\ sys_trace = _dummy_sys_trace => trace_counter > 0
    /\ TracerCalled =>
          LET f == last_call.frame
          IN  /\ orig_trace[f] = PyNone => last_call.returned = PyNone
              /\ IF TracerRaised THEN f_trace[f] = PyNone /\ sys_trace = PyNone
                 ELSE IF f \in DOMAIN _frame_tracer THEN f_trace[f] = TracerOf(f)
                 ELSE f_trace[f] = last_call.returned

\* C27 witness: _exit_context raised in the last event of a frame, the
\* function injected after it for the same event still ran, and the frame
\* is no longer registered
C27_Witness ==
    /\ TracerRaised
    /\ last_call.frame \notin DOMAIN _frame_tracer
    /\ trace_counter = 0
    /\ Len(ran[last_call.frame]) = 2
    /\ ran[last_call.frame][1].fn = ExitContextFunction
    /\ ran[last_call.frame][2].fn = HostFunction("ok")

\* ---- the globals a WithHack writes
\* C26: for a WithHack used in a function frame, after __exit__ every
\* global name that _set_context_locals wrote during the block (a name that
\* is not a local variable of the frame) has the value it had before the
\* block, or is absent if it was absent then, however often the name was
\* injected; and __to_reset__ is empty.
C26_GlobalsRestoredAfterExit ==
    (op = "WithHack.__exit__" /\ before.frame = FunctionFrame) =>
        /\ \A n \in InjectedNames \ co_varnames :
              IF n \in DOMAIN before.globals
              THEN n \in DOMAIN f_globals /\ f_globals[n] = before.globals[n]
              ELSE n \notin DOMAIN f_globals
        /\ __to_reset__ = Bindings(EmptyDict)

\* ---- the module-level case of injecting
\* the calling frame is inside a block: a with statement was reached and
\* its block has not been left
InsideWithMatch == op = "with match" \/ (op = "case" /\ value # PyNone)

\* C22: `with match(v):` enters its block, and the module-level case()
\* delegates to the active match object while the calling frame is inside
\* the block, so that it returns what the object's case returns, True or
\* False; called before any block is entered it raises
\* ValueError("case() is only valid inside `with match`").
C22_CaseDelegatesInsideBlock ==
    /\ op = "with match" => result.k # "raise"
    /\ op = "case" =>
          IF InsideWithMatch THEN result \in {PyBool(TRUE), PyBool(FALSE)}
          ELSE result = OutsideWithMatch

\* ---- the cases of a _Matcher
CaseMatch(i) == Match(matcher.cases[i][1], value)
CaseGuard(i) == matcher.cases[i][3]
GuardResult(i) == exe(CaseMatch(i).b, CaseGuard(i))
\* the case ends the match: its pattern raises, or its pattern matches and
\* it has no guard, or its guard raises or is true
Decisive(i) ==
    \/ CaseMatch(i).k = "raise"
    \/ /\ IsBindings(CaseMatch(i))
       /\ \/ CaseGuard(i) = PyNone
          \/ GuardResult(i).k = "raise"
          \/ Truthy(GuardResult(i))
DecisiveCases == {i \in DOMAIN matcher.cases : Decisive(i)}
FirstDecisive == CHOOSE i \in DecisiveCases : \A j \in DecisiveCases : i <= j
TriedCases == IF DecisiveCases = {} THEN DOMAIN matcher.cases ELSE 1..FirstDecisive
GuardedMatches == {i \in TriedCases : IsBindings(CaseMatch(i)) /\ CaseGuard(i) # PyNone}

\* C23: _Matcher.match returns the label of the first case, in declaration
\* order, whose pattern matches the value and whose guard, if it has one,
\* is true on the bindings of that match, together with those bindings; a
\* guard is evaluated only for a case whose pattern has matched, and only if
\* no earlier case was chosen; a case whose guard is false is vetoed and the
\* following cases are tried; if no case qualifies the result is the
\* otherwise label with empty bindings.  An exception of a pattern or of a
\* guard ends the match.
C23_FirstQualifyingCase ==
    op = "_Matcher.match" =>
        /\ Len(exe_log) = Cardinality(GuardedMatches)
        /\ \A n \in DOMAIN exe_log :
              exe_log[n] \in GuardedMatches /\ \A k \in 1..(n - 1) : exe_log[k] < exe_log[n]
        /\ IF DecisiveCases = {}
           THEN result = PyTuple(<<matcher.otherwise, Bindings(EmptyDict)>>)
           ELSE IF CaseMatch(FirstDecisive).k = "raise" THEN result = CaseMatch(FirstDecisive)
           ELSE IF CaseGuard(FirstDecisive) # PyNone /\ GuardResult(FirstDecisive).k = "raise"
                THEN result = GuardResult(FirstDecisive)
           ELSE result = PyTuple(<<matcher.cases[FirstDecisive][2], CaseMatch(FirstDecisive)>>)

\* C23 witness: the pattern of the first case matches and its guard is
\* false, the second case is chosen after its guard was evaluated
C23_Witness ==
    /\ op = "_Matcher.match"
    /\ Len(matcher.cases) = 2
    /\ exe_log = <<1, 2>>
    /\ ~Truthy(GuardResult(1))
    /\ result = PyTuple(<<matcher.cases[2][2], CaseMatch(2)>>)
    /\ CaseMatch(2).b # EmptyDict

\* ---- the order of evaluation
RECURSIVE Names(_)
\* the names a pattern hands to the resolve callback when all of it is
\* evaluated
Names(p) ==
    CASE p.k = "PtValue" -> {p.attributes[1]}
      [] p.k = "PtClass" ->
            {p.cls.attributes[1]} \cup UNION {Names(p.args[i]) : i \in DOMAIN p.args}
                \cup UNION {Names(p.kwargs[i][2]) : i \in DOMAIN p.kwargs}
      [] p.k = "PtOr" -> UNION {Names(p.options[i]) : i \in DOMAIN p.options}
      [] p.k = "PtFixedSequence" -> UNION {Names(p.elements[i]) : i \in DOMAIN p.elements}
      [] p.k = "PtCaptureAs" -> Names(p.base)
      [] OTHER -> {}
At(kind) == {i \in DOMAIN events : events[i].e = kind}
Resolved == {events[i].name : i \in At("get")}
OrTraced == op = "PtOr.match" /\ events # <<>>
\* the options that end the loop: they match, or they raise
Ending == {i \in DOMAIN pattern.options : Match(pattern.options[i], value) # PyNone}
FirstEnding == CHOOSE i \in Ending : \A j \in Ending : i <= j
LastTried == IF Ending = {} THEN Len(pattern.options) ELSE FirstEnding

\* C24: while matching an Or the options are evaluated strictly left to
\* right and none is evaluated after the first that succeeds: what the match
\* does is what its options up to that one do, one after the other, the
\* result is the result of that option, and the resolve callback is called
\* for no name that only options to its right refer to.
C24_OrStopsAtFirstSuccess ==
    OrTraced =>
        /\ events = <<MatchEvent(pattern)>>
                       \o Concat([i \in 1..LastTried |-> Trace(pattern.options[i], value)])
        /\ Resolved \subseteq UNION {Names(pattern.options[i]) : i \in 1..LastTried}
        /\ Ending # {} => result = Match(pattern.options[FirstEnding], value)
        /\ Ending = {} => result = PyNone

\* C24 witness: (a | Missing()) matched by its first option, Missing was
\* never resolved
C24_Witness ==
    /\ OrTraced
    /\ pattern = PtOr(<<PtCapture("a"), PtClass(PtValue(<<"Missing">>), <<>>, <<>>)>>)
    /\ IsBindings(result)
    /\ "Missing" \notin Resolved
    /\ "Missing" \in Names(pattern.options[2])

ClassTraced == op = "PtClass.match" /\ events # <<>>
TracedType == PtValue_calc_value(pattern.cls)
IsMatchEvent(x) == x.e = "match"
\* the sub-patterns matched: all if all match, else up to the first that
\* does not
SubMatched ==
    LET prs == pairs.pairs
        ending == {i \in DOMAIN prs : Match(prs[i][1], prs[i][2]).k # "bindings"}
    IN  IF ending = {} THEN Len(prs) ELSE CHOOSE i \in ending : \A j \in ending : i <= j

\* C25: matching a class pattern whose type resolves to a class, the
\* isinstance test comes first: for a value that is not an instance the
\* result is failure and nothing else happens, no lookup of the match args,
\* no arity or duplicate error, no attribute read; the fields are resolved
\* before any sub-pattern is matched; and the sub-patterns are matched in
\* order up to the first that fails (or raises), no later one is evaluated.
C25_ClassPatternOrder ==
    (ClassTraced /\ TracedType.k = "value" /\ IsType(TracedType.v)) =>
        /\ At("isinstance") = {3}
        /\ ~IsInstance(value, TracedType.v) =>
              /\ result = PyNone
              /\ Len(events) = 3
        /\ \A i \in At("__match_args__") \cup At("getattr") :
              /\ i > 3
              /\ \A j \in DOMAIN events :
                    (j > 3 /\ events[j].e \in {"match", "get"}) => i < j
        /\ SelectSeq(Tail(events), IsMatchEvent) =
              IF pairs.k = "pairs"
              THEN [i \in 1..SubMatched |-> MatchEvent(pairs.pairs[i][1])]
              ELSE <<>>

\* C25 witness: Point(0, Missing.RED) against a Point with x = 1 fails at
\* the first sub-pattern after both fields were read, and the second
\* sub-pattern, which would raise NameError, is not evaluated
C25_Witness ==
    /\ ClassTraced
    /\ pattern = PtClass(PtValue(<<"Point">>),
                         <<PtLiteral(PyInt(0)), PtValue(<<"Missing", "RED">>)>>, <<>>)
    /\ value = PyObj("Point", ("x" :> PyInt(1)) @@ ("y" :> PyInt(0)))
    /\ result = PyNone
    /\ At("getattr") = {5, 6}
    /\ "Missing" \notin Resolved

EmptyTraced == op = "T().match"
\* the registry knows nothing of the class of the pattern, or an empty list
FieldsUnknown == TracedType.k = "value" /\ IsType(TracedType.v) /\ __match_args__(TracedType.v) = <<>>

\* C29: a class pattern without sub-patterns whose type resolves to a class
\* succeeds with empty bindings for every instance of the class and fails
\* for every other value, whatever the registry holds, and neither looks up
\* the match args nor reads an attribute of the value.
C29_EmptyClassPattern ==
    (EmptyTraced /\ TracedType.k = "value" /\ IsType(TracedType.v)) =>
        /\ result = IF IsInstance(value, TracedType.v) THEN Bindings(EmptyDict) ELSE PyNone
        /\ At("__match_args__") = {}
        /\ At("getattr") = {}
        /\ pairs = IF IsInstance(value, TracedType.v) THEN Pairs(<<>>) ELSE NotCalled

\* C29 witness: Opaque() matches an Opaque instance with empty bindings
\* while a handler is registered and the fields of Opaque are unknown
C29_Witness ==
    /\ EmptyTraced
    /\ pattern = PtClass(PtValue(<<"Opaque">>), <<>>, <<>>)
    /\ FieldsUnknown
    /\ special_handlers # <<>>
    /\ value.k = "obj" /\ value.cls = "Opaque"
    /\ result = Bindings(EmptyDict)
    /\ events = <<MatchEvent(pattern), GetEvent("Opaque"), IsInstanceEvent(TracedType.v)>>

\* ---- sequence patterns and the values they take for sequences
AllCaptures(ps) == \A i \in DOMAIN ps : ps[i].k = "PtCapture"
\* the kinds of value of the model that Python registers as Sequence,
\* and those it does not
SequenceKinds == {"list", "tuple", "str", "bytes"}
OtherKinds == {"dict", "set", "int", "obj"}
\* name |-> the one-character string at the place of the capture
CharBindings(ps, cs, from) ==
    [n \in {ps[i].name : i \in DOMAIN ps} |->
        PyStr(<<cs[from + (CHOOSE i \in DOMAIN ps : ps[i].name = n)]>>)]
FixedMatched == op = "PtFixedSequence.match"
VariableMatched == op = "PtVariableSequence.match"

\* C30: text and byte strings are sequences to the sequence patterns, as
\* lists and tuples are: a FixedSequence of n captures matches every
\* sequence of length n, and binds the captures to the one-character
\* strings of a string; a VariableSequence of captures matches every
\* sequence that is long enough and binds the star name, for a string, to
\* the substring between pre and post; a mapping, a set, a number or a
\* plain instance matches no sequence pattern.
C30_StringsAreSequences ==
    /\ (FixedMatched \/ VariableMatched) =>
          /\ value.k \in SequenceKinds \cup OtherKinds
          /\ value.k \in OtherKinds => result = PyNone
    /\ (FixedMatched /\ AllCaptures(pattern.elements) /\ value.k \in SequenceKinds) =>
          /\ IsBindings(result) <=>
                (IF value.k = "str" THEN Len(value.chars) ELSE Len(value.items))
                    = Len(pattern.elements)
          /\ (value.k = "str" /\ IsBindings(result)) =>
                result.b = CharBindings(pattern.elements, value.chars, 0)
    /\ (VariableMatched /\ AllCaptures(pattern.pre) /\ AllCaptures(pattern.post)
            /\ value.k \in SequenceKinds) =>
          /\ IsBindings(result) <=>
                (IF value.k = "str" THEN Len(value.chars) ELSE Len(value.items))
                    >= Len(pattern.pre) + Len(pattern.post)
          /\ (value.k = "str" /\ IsBindings(result)) =>
                result.b =
                    CharBindings(pattern.pre, value.chars, 0)
                        @@ CharBindings(pattern.post, value.chars,
                                        Len(value.chars) - Len(pattern.post))
                        @@ (pattern.star :>
                                PyStr(SubSeq(value.chars, Len(pattern.pre) + 1,
                                             Len(value.chars) - Len(pattern.post))))

\* C30 witness: [a, *rest, b] against the text "aba" binds a and b to one
\* character each and rest to the substring "b"
C30_Witness ==
    /\ VariableMatched
    /\ pattern = PtVariableSequence(<<PtCapture("a")>>, "rest", <<PtCapture("b")>>)
    /\ value = PyStr(<<"a", "b", "a">>)
    /\ result = Bindings(("a" :> PyStr(<<"a">>)) @@ ("rest" :> PyStr(<<"b">>))
                            @@ ("b" :> PyStr(<<"a">>)))

====
